---- MODULE Spec2Model ----
(***************************************************************************)
(* rust-sqlite3: the resource lifecycle of src/core.rs                     *)
(*   DatabaseConnection -> PreparedStatement -> ResultSet -> ResultRow     *)
(* over the sqlite3 C API.  The wrapper objects are modelled next to the   *)
(* engine objects they own; the borrow rules the lifetimes of core.rs      *)
(* impose are the guards of the actions.                                   *)
(***************************************************************************)
EXTENDS Integers, Sequences, FiniteSets, TLC

\* ------------------------------------------------------------- bounds
MaxConn == 2        \* DatabaseConnection::new calls in a run
MaxStmt == 2        \* successful prepare calls in a run
MaxRows == 2        \* rows of the longest result
MaxTextLen == 1     \* bytes of the longest text handed to bind_text
LiveCap == 2        \* cap on simultaneously live ResultSets / ResultRows of a statement
MaxColIx == 3       \* largest column index asked for
MaxSec == 2         \* latest second after the epoch of a timestamp
MaxTop == 1         \* largest upper half of a duration's milliseconds
MaxThreads == 2     \* threads of the program
MaxInserts == 2     \* rows the table of a connection holds before the engine reports it full

\* ------------------------------------------------------------- result codes
SQLITE_OK == 0
SQLITE_ERROR == 1
SQLITE_BUSY == 5
SQLITE_NOMEM == 7
SQLITE_IOERR == 10
SQLITE_FULL == 13
SQLITE_CANTOPEN == 14
SQLITE_MISMATCH == 20
SQLITE_MISUSE == 21
SQLITE_RANGE == 25
SQLITE_NOTADB == 26
SQLITE_ROW == 100
SQLITE_DONE == 101

\* ColumnType
SQLITE_INTEGER == 1
SQLITE_FLOAT == 2
SQLITE_TEXT == 3
SQLITE_BLOB == 4
SQLITE_NULL == 5

NULL == 0           \* the null handle (ptr::null_mut())
NulByte == 0        \* the byte CString::new rejects
LetterA == 97
Digit0 == 48        \* '0', the first digit of the text the engine renders a number as
Dot == 46           \* '.'

ConnIds == 1..MaxConn
StmtIds == 1..MaxStmt

\* ------------------------------------------------------------- values
NoVal == [k |-> "none", v |-> <<>>]
NullV == [k |-> "null", v |-> <<>>]
IntV(i) == [k |-> "int", v |-> <<i>>]
TextV(t) == [k |-> "text", v |-> t]

\* the caller's i64 and f64 (whole numbers stand for all), and byte vectors
Int64V(i) == [k |-> "int64", v |-> <<i>>]
DoubleV(x) == [k |-> "double", v |-> <<x>>]
BlobV(b) == [k |-> "blob", v |-> b]

Bytes == {NulByte, LetterA}
Texts == UNION {[1..n -> Bytes] : n \in 0..MaxTextLen}
HasNul(t) == \E i \in 1..Len(t) : t[i] = NulByte

\* CStr::from_ptr(p).to_bytes(): the bytes before the first nul
RECURSIVE UpToNul(_)
UpToNul(t) ==
    IF t = <<>> \/ Head(t) = NulByte THEN <<>> ELSE <<Head(t)>> \o UpToNul(Tail(t))

\* the decimal digits of i >= 0
RECURSIVE Decimal(_)
Decimal(i) ==
    IF i < 10 THEN <<Digit0 + i>> ELSE Decimal(i \div 10) \o <<Digit0 + (i % 10)>>

\* the datatype of a stored value (sqlite3_column_type before any conversion)
TypeOf(v) ==
    IF v.k = "null" THEN SQLITE_NULL
    ELSE IF v.k = "int" THEN SQLITE_INTEGER
    ELSE IF v.k = "double" THEN SQLITE_FLOAT
    ELSE IF v.k = "text" THEN SQLITE_TEXT
    ELSE SQLITE_BLOB

\* sqlite3_column_int / _int64 / _double of a stored value: the number, 0 of
\* NULL and of text or a blob without a numeric prefix (none of Texts has one)
AsNumber(v) == IF v.k \in {"int", "double"} THEN v.v[1] ELSE 0

\* the bytes sqlite3_column_text / _blob point at: text and blobs as they
\* are, numbers rendered as text
AsBytes(v) ==
    IF v.k \in {"text", "blob"} THEN v.v
    ELSE IF v.k = "int" THEN Decimal(v.v[1])
    ELSE IF v.k = "double" THEN Decimal(v.v[1]) \o <<Dot, Digit0>>
    ELSE <<>>

\* the SQL texts of the model: a valid statement has np parameters, n
\* result rows and the result columns cols: "select ?1 as a union all
\* select 2 ... union all select n", for n = 0 "select ?1 as a limit 0";
\* ok = FALSE is "select bogus".
BogusSql == [ok |-> FALSE, np |-> 0, n |-> 0, kind |-> "select", cols |-> <<>>]
SqlTexts == [ok : {TRUE}, np : {1}, n : 0..MaxRows, kind : {"select"}, cols : {<<"a">>}]
            \cup {BogusSql}

\* "select * from t" of a table whose column is named, in the database
\* file, by bytes that are not UTF-8 (BadName stands for them)
BadName == "<ff>"
BadColSql == [ok |-> TRUE, np |-> 0, n |-> 1, kind |-> "select", cols |-> <<BadName>>]

\* "": the empty text compiles to no statement
EmptySql == [ok |-> TRUE, np |-> 0, n |-> 0, kind |-> "empty", cols |-> <<>>]

\* "create table t (x)" and "insert into t values (?1)"
CreateSql == [ok |-> TRUE, np |-> 0, n |-> 0, kind |-> "create", cols |-> <<>>]
InsertSql == [ok |-> TRUE, np |-> 1, n |-> 0, kind |-> "insert", cols |-> <<>>]

\* "select ?1 as a, 2 as a, 3 as b"
WideSql == [ok |-> TRUE, np |-> 1, n |-> 1, kind |-> "select", cols |-> <<"a", "a", "b">>]

\* "select ?1 as a, ?2 as b"
PairSql == [ok |-> TRUE, np |-> 2, n |-> 1, kind |-> "select", cols |-> <<"a", "b">>]

\* the result of a compiled statement under its bindings: row 1 starts with
\* the values bound to its parameters, every other cell of column k of row
\* j is the integer j + k - 1
RowsOf(sql, bind) ==
    [j \in 1..sql.n |->
        [k \in 1..Len(sql.cols) |->
            IF j = 1 /\ k <= sql.np THEN bind[k] ELSE IntV(j + k - 1)]]

Call(f, h) == [f |-> f, h |-> h]

VARIABLES
    db,      \* engine: the sqlite3 objects, by handle
    conn,    \* wrapper: the DatabaseConnection values, by order of construction
    vm,      \* engine: the sqlite3_stmt objects, by handle
    ps,      \* wrapper: the PreparedStatement values (ps[s] owns handle s)
    rs,      \* wrapper: the ResultSets / ResultRows borrowed from ps[s], and the pass they run
    calls,   \* the engine calls the last operation issued, in order
    ret,     \* what the last operation returned
    threads  \* the thread of the last operation, and the thread each value lives on

vars == <<db, conn, vm, ps, rs, calls, ret, threads>>

\* SqliteError.detail: Option<String>; a message of the engine is named by
\* the result code it describes
NoDetail == [some |-> FALSE, msg |-> SQLITE_OK]
Detail(msg) == [some |-> TRUE, msg |-> msg]

\* the T of get_opt::<I, T>: i32, i64, f64 or String, or Option of one
NoType == [T |-> "", opt |-> FALSE]

\* inner is the status of the engine call that decided the result
Ret(op, id, code, kind, val) ==
    [op |-> op, id |-> id, code |-> code, kind |-> kind, val |-> val, panic |-> FALSE,
     desc |-> "", detail |-> NoDetail, inner |-> code, ty |-> NoType, idx |-> NoVal]

\* ------------------------------------------------------------- engine
\* errmsg is the last-error message of the connection, ext whether extended
\* result codes are enabled on it
\* schema: table t exists; table: the rowids of its rows; changes and rowid:
\* what sqlite3_changes and sqlite3_last_insert_rowid report
\* busy: the milliseconds of the busy handler, 0 without one
NoDb == [st |-> "unalloc", closes |-> 0, errmsg |-> SQLITE_OK, ext |-> FALSE,
         schema |-> FALSE, table |-> <<>>, changes |-> 0, rowid |-> 0, busy |-> 0]

\* an extended result code: the primary code in the low byte
ExtendedCode(code, n) == code + n * 256

\* sqlite3_errmsg(db); of the null handle, the out-of-memory message
SqliteErrmsg(d, h) == IF h = NULL THEN SQLITE_NOMEM ELSE d[h].errmsg

\* the engine records the result of a call as the last error of db
SetErrmsg(d, h, code) == IF h = NULL THEN d ELSE [d EXCEPT ![h].errmsg = code]
\* conv: the current row was read through column_text or column_blob as a
\* type it is not stored as
NoVm == [est |-> "none", db |-> NULL, sql |-> BogusSql, bind |-> <<>>,
         run |-> "ready", pc |-> 0, fin |-> 0, uaf |-> FALSE, conv |-> FALSE]

\* the engine completes "insert into t values (?1)": the new row gets the
\* next rowid
InsertDone_silent(d, h) ==
    [d EXCEPT ![h].table = Append(@, Len(@) + 1)]

InsertDone(d, h) ==
    [d EXCEPT ![h].table = Append(@, Len(@) + 1), ![h].changes = 1, ![h].rowid = Len(d[h].table) + 1]

TableFull(d, h) == Len(d[h].table) >= MaxInserts

\* the program of a statement run to its end: the code and the database after it
RunToEnd(d, h, sql) ==
    IF sql.kind = "insert"
    THEN IF TableFull(d, h) THEN [code |-> SQLITE_FULL, d |-> SetErrmsg(d, h, SQLITE_FULL)]
         ELSE [code |-> SQLITE_DONE, d |-> InsertDone(d, h)]
    ELSE IF sql.kind = "create"
    THEN IF d[h].schema THEN [code |-> SQLITE_ERROR, d |-> SetErrmsg(d, h, SQLITE_ERROR)]
         ELSE [code |-> SQLITE_DONE, d |-> [d EXCEPT ![h].schema = TRUE]]
    ELSE [code |-> SQLITE_DONE, d |-> d]

\* sqlite3_close(h): BUSY while a statement of h is not finalized
SqliteCloseCode(d, m, h) ==
    IF h = NULL THEN SQLITE_OK
    ELSE IF \E s \in StmtIds : m[s].est = "live" /\ m[s].db = h THEN SQLITE_BUSY
    ELSE SQLITE_OK

SqliteClose(d, m, h) ==
    IF h = NULL THEN d
    ELSE IF SqliteCloseCode(d, m, h) # SQLITE_OK
         THEN [d EXCEPT ![h].closes = IF @ < 2 THEN @ + 1 ELSE @]
         ELSE [d EXCEPT ![h].st = "closed", ![h].closes = IF @ < 2 THEN @ + 1 ELSE @]

\* sqlite3_reset(S): back to the start of the program; bindings are kept
SqliteReset(m) ==
    IF m.est # "live" THEN [m EXCEPT !.uaf = TRUE]
    ELSE [m EXCEPT !.run = "ready", !.pc = 0, !.conv = FALSE]

\* sqlite3_finalize(S)
SqliteFinalize(m) ==
    IF m.est # "live" THEN [m EXCEPT !.uaf = TRUE, !.fin = IF @ < 2 THEN @ + 1 ELSE @]
    ELSE [m EXCEPT !.est = "finalized", !.fin = IF @ < 2 THEN @ + 1 ELSE @]

\* no ResultSet and no ResultRow; got, cur, end, again and prev record the
\* pass a ResultSet runs: the rows its steps delivered up to the first
\* 'done' or error, the row of the last step, how the pass first ended,
\* whether step was called after that, and the number of rows the pass before
\* it had delivered when it was dropped with rows left (NoPartial otherwise)
NoPartial == 0 - 1
NoRs == [n |-> 0, rows |-> 0, got |-> <<>>, cur |-> NoVal, end |-> "no",
         again |-> FALSE, prev |-> NoPartial]

\* cur: the thread that ran the last operation; conn[c], stmt[s]: the thread
\* on which the DatabaseConnection c, the PreparedStatement s (and the
\* ResultSets and ResultRows that borrow it) were made. A program that
\* spawns no thread runs on MainThread.
NoThread == 0
MainThread == 1
Threads == MainThread..MaxThreads

Init ==
    /\ db = [h \in ConnIds |-> NoDb]
    /\ conn = [c \in ConnIds |-> [life |-> "none", db |-> NULL, detailed |-> TRUE]]
    /\ vm = [s \in StmtIds |-> NoVm]
    /\ ps = [s \in StmtIds |-> [life |-> "none", stmt |-> NULL, detailed |-> TRUE, arg |-> NullV,
                               bound |-> {}, held |-> FALSE]]
    /\ rs = [s \in StmtIds |-> NoRs]
    /\ calls = <<>>
    /\ ret = Ret("init", 0, SQLITE_OK, "", NoVal)
    /\ threads = [cur |-> MainThread, conn |-> [c \in ConnIds |-> NoThread],
                  stmt |-> [s \in StmtIds |-> NoThread]]

\* ------------------------------------------------------------- results
\* Option<*mut sqlite3>: the connection to copy the error message from
NoDetailDb == [some |-> FALSE, h |-> NULL]
DetailDb(h) == [some |-> TRUE, h |-> h]

maybe(choice, h) == IF choice THEN DetailDb(h) ELSE NoDetailDb

\* from_i32::<SqliteErrorCode>(result) is Some
IsErrorCode(result) == result \in SQLITE_ERROR..SQLITE_NOTADB

\* error_result: kind is from_i32::<SqliteErrorCode>(result).unwrap(), which
\* panics on a result that is no SqliteErrorCode
error_result(result, desc, detail) ==
    IF IsErrorCode(result)
    THEN [code |-> result, kind |-> "err", desc |-> desc, detail |-> detail, panic |-> FALSE,
          calls |-> <<>>]
    ELSE [code |-> result, kind |-> "panic", desc |-> desc, detail |-> NoDetail, panic |-> TRUE,
          calls |-> <<>>]

\* Ok(())
OkResult ==
    [code |-> SQLITE_OK, kind |-> "ok", desc |-> "", detail |-> NoDetail, panic |-> FALSE,
     calls |-> <<>>]

\* decode_result(result, desc, detail_db) on the engine state d
decode_result_nodetail(d, result, desc, detail_db) ==
    IF result = SQLITE_OK THEN OkResult
    ELSE error_result(result, desc, NoDetail)

decode_result(d, result, desc, detail_db) ==
    IF result = SQLITE_OK THEN OkResult
    ELSE IF detail_db.some
         THEN [error_result(result, desc, Detail(SqliteErrmsg(d, detail_db.h)))
                  EXCEPT !.calls = <<Call("sqlite3_errmsg", detail_db.h)>>]
         ELSE error_result(result, desc, NoDetail)

\* what an operation returns, from a decoded result
RetOf(op, id, r, val) ==
    [op |-> op, id |-> id, code |-> r.code, kind |-> r.kind, val |-> val, panic |-> r.panic,
     desc |-> r.desc, detail |-> r.detail, inner |-> r.code, ty |-> NoType, idx |-> NoVal]

\* ------------------------------------------------------------- borrows
\* PreparedStatement<'st> carries PhantomData<&'st DatabaseConnection> and
\* prepare has 'db:'st: a live statement keeps its connection borrowed.
ConnBorrowed_none(c) == FALSE

ConnBorrowed(c) ==
    \E s \in StmtIds : ps[s].life = "alive" /\ vm[s].db = conn[c].db

\* ResultSet holds &'res mut PreparedStatement: while one lives, the
\* statement is exclusively borrowed.
StmtBorrowed_none(s) == FALSE

StmtBorrowed(s) == rs[s].n > 0

\* clear_bindings(&'st mut self) borrows the PreparedStatement<'st> for 'st,
\* the whole of its life: after the call no method of the statement can be
\* called any more, it can only go out of scope
StmtHeld_none(s) == FALSE

StmtHeld(s) == ps[s].held

\* ResultRow holds &'row mut ResultSet.
RsBorrowed_none(s) == FALSE

RsBorrowed(s) == rs[s].rows > 0

\* ------------------------------------------------------------- DatabaseConnection
\* Access::open as InMemory and ByFilename implement it (sqlite3_open,
\* sqlite3_open_v2): OK with a handle, or an error code with a handle or
\* with none (out of memory).
\* An implementation of Access may enable extended result codes on the
\* handle it opens (ext).
OpenOutcomes(c) ==
    { [code |-> SQLITE_OK, h |-> c, ext |-> FALSE],
      [code |-> SQLITE_OK, h |-> c, ext |-> TRUE],
      [code |-> SQLITE_CANTOPEN, h |-> c, ext |-> FALSE],
      [code |-> SQLITE_NOMEM, h |-> NULL, ext |-> FALSE] }

SqliteOpen(d, o) ==
    IF o.h = NULL THEN d
    ELSE [d EXCEPT ![o.h].st = "open", ![o.h].errmsg = o.code, ![o.h].ext = o.ext]

\* the Err arm of DatabaseConnection::new: close whatever open left
NewOnError_leak(d, m, h) ==
    [db |-> d, calls |-> <<>>]

NewOnError(d, m, h) ==
    [db |-> SqliteClose(d, m, h), calls |-> <<Call("sqlite3_close", h)>>]

New ==
    \E c \in ConnIds : \E o \in OpenOutcomes(c) :
        /\ conn[c].life = "none"
        /\ \A b \in ConnIds : b < c => conn[b].life # "none"
        /\ LET h == o.h
               d1 == SqliteOpen(db, o)
               r == decode_result(d1, o.code, "sqlite3_open_v2", DetailDb(h))
           IN IF r.kind = "ok"
              THEN /\ db' = d1
                   /\ conn' = [conn EXCEPT ![c] = [life |-> "alive", db |-> h, detailed |-> TRUE]]
                   /\ calls' = <<Call("sqlite3_open", h)>>
                   /\ ret' = RetOf("new", c, r, NoVal)
              ELSE LET e == IF r.panic THEN [db |-> d1, calls |-> <<>>]
                                       ELSE NewOnError(d1, vm, h)
                   IN /\ db' = e.db
                      /\ conn' = [conn EXCEPT ![c] = [life |-> "failed", db |-> h, detailed |-> TRUE]]
                      /\ calls' = <<Call("sqlite3_open", h)>> \o r.calls \o e.calls
                      /\ ret' = RetOf("new", c, r, NoVal)
        /\ UNCHANGED <<vm, ps, rs>>

\* impl Drop for DatabaseConnection: close, assert_eq!(ok, SQLITE_OK)
DropConnection(c) ==
    /\ conn[c].life = "alive"
    /\ ~ConnBorrowed(c)
    /\ LET code == SqliteCloseCode(db, vm, conn[c].db)
       IN /\ db' = SqliteClose(db, vm, conn[c].db)
          /\ conn' = [conn EXCEPT ![c].life = "dropped"]
          /\ calls' = <<Call("sqlite3_close", conn[c].db)>>
          /\ ret' = [Ret("drop_conn", c, code, "", NoVal) EXCEPT !.panic = (code # SQLITE_OK)]
    /\ UNCHANGED <<vm, ps, rs>>

\* sqlite3_prepare_v2
SqlitePrepare(d, h, sql) ==
    IF ~sql.ok THEN SQLITE_ERROR
    ELSE IF sql.kind = "insert" /\ ~d[h].schema THEN SQLITE_ERROR
    ELSE IF sql.kind = "create" /\ d[h].schema THEN SQLITE_ERROR
    ELSE SQLITE_OK

\* prepare / prepare_with_offset (&'db self: a shared borrow)
Prepare(c, sql) ==
    /\ conn[c].life = "alive"
    /\ LET h == conn[c].db
           code == SqlitePrepare(db, h, sql)
           d1 == SetErrmsg(db, h, code)
           r == decode_result(d1, code, "sqlite3_prepare_v2", maybe(conn[c].detailed, h))
       IN /\ db' = d1
          /\ IF r.kind = "ok"
             THEN \E s \in StmtIds :
                   /\ ps[s].life = "none"
                   /\ \A b \in StmtIds : b < s => ps[b].life # "none"
                   /\ vm' = [vm EXCEPT ![s] = [NoVm EXCEPT !.est = "live", !.db = h, !.sql = sql,
                                                !.bind = [i \in 1..sql.np |-> NullV]]]
                   /\ ps' = [ps EXCEPT ![s] = [life |-> "alive", stmt |-> s,
                                                detailed |-> conn[c].detailed, arg |-> NullV,
                                                bound |-> {}, held |-> FALSE]]
                   /\ calls' = <<Call("sqlite3_prepare_v2", h)>>
                   /\ ret' = RetOf("prepare", s, r, NoVal)
             ELSE /\ calls' = <<Call("sqlite3_prepare_v2", h)>> \o r.calls
                  /\ ret' = RetOf("prepare", c, r, NoVal)
                  /\ UNCHANGED <<vm, ps>>
    /\ UNCHANGED <<conn, rs>>

\* the SQL text an operation was given: the statement it spells, and whether
\* it holds a nul byte
SqlV(sql, nul) == [k |-> "sql", v |-> <<sql, nul>>]

\* what sqlite3_prepare_v2 may read at z_sql when the text has a nul byte:
\* str_charstar made the empty C string of it, and as_ptr() of that
\* temporary is read after it was freed: the empty text, or bytes that are
\* no SQL
DanglingSql == {EmptySql, BogusSql}

\* prepare of a text that spells sql with a nul byte inside; the empty text
\* compiles to Ok with the null pointer for a statement
PrepareNul(c, sql) ==
    /\ conn[c].life = "alive"
    /\ \E read \in DanglingSql :
        LET h == conn[c].db
            code == SqlitePrepare(db, h, read)
            d1 == SetErrmsg(db, h, code)
            r == decode_result(d1, code, "sqlite3_prepare_v2", maybe(conn[c].detailed, h))
        IN /\ db' = d1
           /\ IF r.kind = "ok"
              THEN \E s \in StmtIds :
                    /\ ps[s].life = "none"
                    /\ \A b \in StmtIds : b < s => ps[b].life # "none"
                    /\ vm' = vm
                    /\ ps' = [ps EXCEPT ![s] = [life |-> "alive", stmt |-> NULL,
                                                 detailed |-> conn[c].detailed, arg |-> NullV,
                                                 bound |-> {}, held |-> FALSE]]
                    /\ calls' = <<Call("sqlite3_prepare_v2", h)>>
                    /\ ret' = [RetOf("prepare", s, r, NoVal) EXCEPT !.idx = SqlV(sql, TRUE)]
              ELSE /\ calls' = <<Call("sqlite3_prepare_v2", h)>> \o r.calls
                   /\ ret' = [RetOf("prepare", c, r, NoVal) EXCEPT !.idx = SqlV(sql, TRUE)]
                   /\ UNCHANGED <<vm, ps>>
    /\ UNCHANGED <<conn, rs>>

\* ignore_detail(&mut self) of DatabaseConnection
IgnoreDetail(c) ==
    /\ conn[c].life = "alive"
    /\ ~ConnBorrowed(c)
    /\ conn' = [conn EXCEPT ![c].detailed = FALSE]
    /\ calls' = <<>>
    /\ ret' = Ret("ignore_detail", c, SQLITE_OK, "", NoVal)
    /\ UNCHANGED <<db, vm, ps, rs>>

\* errmsg(&mut self): a copy of the latest error message
Errmsg(c) ==
    /\ conn[c].life = "alive"
    /\ ~ConnBorrowed(c)
    /\ calls' = <<Call("sqlite3_errmsg", conn[c].db)>>
    /\ ret' = [Ret("errmsg", c, SQLITE_OK, "", NoVal) EXCEPT
                  !.detail = Detail(SqliteErrmsg(db, conn[c].db))]
    /\ UNCHANGED <<db, conn, vm, ps, rs>>

\* impl From<NulError> for SqliteError
FromNulError_exec ==
    [code |-> SQLITE_MISUSE, kind |-> "err", desc |-> "sqlite3_exec",
     detail |-> NoDetail, panic |-> FALSE, calls |-> <<>>]

FromNulError ==
    [code |-> SQLITE_MISUSE, kind |-> "err", desc |-> "Sql string contained an internal 0 byte",
     detail |-> NoDetail, panic |-> FALSE, calls |-> <<>>]

\* sqlite3_exec: prepare, run to the end, finalize
SqliteExec(d, h, sql) ==
    LET p == SqlitePrepare(d, h, sql)
        e == RunToEnd(d, h, sql)
    IN IF p # SQLITE_OK THEN [code |-> p, d |-> SetErrmsg(d, h, p)]
       ELSE IF e.code = SQLITE_DONE THEN [code |-> SQLITE_OK, d |-> SetErrmsg(e.d, h, SQLITE_OK)]
       ELSE e

\* exec(&mut self, sql): try!(CString::new(sql)) fails when sql has an
\* interior nul byte (nul), before any engine call
Exec(c, sql, nul) ==
    /\ conn[c].life = "alive"
    /\ ~ConnBorrowed(c)
    /\ LET h == conn[c].db
           x == SqliteExec(db, h, sql)
           d1 == x.d
           r == decode_result(d1, x.code, "sqlite3_exec", maybe(conn[c].detailed, h))
       IN IF nul
          THEN /\ db' = db
               /\ calls' = <<>>
               /\ ret' = [RetOf("exec", c, FromNulError, NoVal) EXCEPT !.idx = SqlV(sql, nul)]
          ELSE /\ db' = d1
               /\ calls' = <<Call("sqlite3_exec", h)>> \o r.calls
               /\ ret' = [RetOf("exec", c, r, NoVal) EXCEPT !.idx = SqlV(sql, nul)]
    /\ UNCHANGED <<conn, vm, ps, rs>>

\* sqlite3_busy_timeout(db, ms): installs the handler of ms milliseconds
\* when ms > 0, removes the busy handler otherwise, and returns OK
SqliteBusyTimeout(d, h, ms) ==
    [code |-> SQLITE_OK, d |-> [d EXCEPT ![h].busy = IF ms > 0 THEN ms ELSE 0]]

\* a Duration by its num_milliseconds(), an i64 written in limbs of 16
\* bits: (top * Limb + hi) * Limb + lo, with hi and lo in 0..Limb - 1
Limb == 65536
DurationV(top, hi, lo) == [k |-> "ms", v |-> <<top, hi, lo>>]
TwoSeconds == DurationV(0, 0, 2000)
Durations ==
    {DurationV(top, hi, lo) : top \in (0 - 1)..MaxTop, hi \in {0, Limb \div 2, Limb - 1},
                              lo \in {0, 1}}
        \cup {TwoSeconds}

\* d > Duration::zero()
IsPositive(d) == d.v[1] > 0 \/ (d.v[1] = 0 /\ (d.v[2] > 0 \/ d.v[3] > 0))

\* d.num_milliseconds() as i32: the low 32 bits, in two's complement
AsI32(d) == (IF d.v[2] >= Limb \div 2 THEN d.v[2] - Limb ELSE d.v[2]) * Limb + d.v[3]

\* busy_timeout(&mut self, d)
BusyTimeout(c, d) ==
    /\ conn[c].life = "alive"
    /\ ~ConnBorrowed(c)
    /\ LET h == conn[c].db
           ms == AsI32(d)
           out == SqliteBusyTimeout(db, h, ms)
           r == decode_result(out.d, out.code, "sqlite3_busy_timeout",
                              maybe(conn[c].detailed, h))
       IN /\ db' = out.d
          /\ calls' = <<Call("sqlite3_busy_timeout", h)>> \o r.calls
          /\ ret' = [RetOf("busy_timeout", c, r, IntV(ms)) EXCEPT !.idx = d]
    /\ UNCHANGED <<conn, vm, ps, rs>>

\* changes(&self): sqlite3_changes(db) as u64
Changes(c) ==
    /\ conn[c].life = "alive"
    /\ calls' = <<Call("sqlite3_changes", conn[c].db)>>
    /\ ret' = Ret("changes", c, SQLITE_OK, "", IntV(db[conn[c].db].changes))
    /\ UNCHANGED <<db, conn, vm, ps, rs>>

\* last_insert_rowid(&self)
LastInsertRowid(c) ==
    /\ conn[c].life = "alive"
    /\ calls' = <<Call("sqlite3_last_insert_rowid", conn[c].db)>>
    /\ ret' = Ret("last_insert_rowid", c, SQLITE_OK, "", IntV(db[conn[c].db].rowid))
    /\ UNCHANGED <<db, conn, vm, ps, rs>>

\* ------------------------------------------------------------- PreparedStatement
\* ignore_detail(&mut self) of PreparedStatement
StmtIgnoreDetail(s) ==
    /\ ps[s].life = "alive"
    /\ ~StmtBorrowed(s) /\ ~StmtHeld(s)
    /\ ps' = [ps EXCEPT ![s].detailed = FALSE]
    /\ calls' = <<>>
    /\ ret' = Ret("stmt_ignore_detail", s, SQLITE_OK, "", NoVal)
    /\ UNCHANGED <<db, conn, vm, rs>>

\* sqlite3_bind_parameter_count(S)
SqliteBindParameterCount(m) == IF m.est = "live" THEN m.sql.np ELSE 0

\* sqlite3_bind_*(S, i, value)
SqliteBind_unchecked(m, i, val) ==
    [code |-> SQLITE_OK, m |-> [m EXCEPT !.bind[i] = val]]

SqliteBind_all(m, i, val) ==
    IF i < 1 \/ i > m.sql.np THEN [code |-> SQLITE_RANGE, m |-> m]
    ELSE [code |-> SQLITE_OK, m |-> [m EXCEPT !.bind = [q \in DOMAIN @ |-> val]]]

SqliteBind(m, i, val) ==
    IF m.est # "live" THEN [code |-> SQLITE_MISUSE, m |-> [m EXCEPT !.uaf = TRUE]]
    ELSE IF m.run # "ready" THEN [code |-> SQLITE_MISUSE, m |-> m]
    ELSE IF i < 1 \/ i > m.sql.np THEN [code |-> SQLITE_RANGE, m |-> m]
    ELSE [code |-> SQLITE_OK, m |-> [m EXCEPT !.bind[i] = val]]

\* sqlite3_clear_bindings(S)
SqliteClearBindings(m) ==
    IF m.est # "live" THEN [m EXCEPT !.uaf = TRUE]
    ELSE [m EXCEPT !.bind = [i \in 1..m.sql.np |-> NullV]]

\* detail_db(&mut self): the connection of the statement, asked of the
\* engine, when the statement copies details
detail_db(s) ==
    [db |-> maybe(ps[s].detailed, vm[s].db),
     calls |-> IF ps[s].detailed THEN <<Call("sqlite3_db_handle", s)>> ELSE <<>>]

\* a ParamIx as the index an operation was asked for
ParamIxV(i) == [k |-> "pos", v |-> <<i>>]

\* the tail of every bind_*: decode_result(r, "sqlite3_bind_*", self.detail_db()),
\* the argument detail_db() being evaluated whatever r is; ret.val is the
\* value the caller passed; ps[s].arg keeps the value the caller last bound
\* at position 1, ps[s].bound the positions bound since the statement was
\* prepared or its bindings cleared
BindDone(op, f, s, i, arg, out) ==
    LET d1 == SetErrmsg(db, vm[s].db, out.code)
        dd == detail_db(s)
        r == decode_result(d1, out.code, f, dd.db)
    IN /\ db' = d1
       /\ vm' = [vm EXCEPT ![s] = out.m]
       /\ ps' = [ps EXCEPT ![s].arg = IF r.kind = "ok" /\ i = 1 THEN arg ELSE @,
                            ![s].bound = IF r.kind = "ok" THEN @ \cup {i} ELSE @]
       /\ calls' = <<Call(f, s)>> \o dd.calls \o r.calls
       /\ ret' = [RetOf(op, s, r, arg) EXCEPT !.idx = ParamIxV(i)]
       /\ UNCHANGED <<conn, rs>>

Positions == {0, 1, 2}
IntVals == {1}

BindNull(s, i) ==
    /\ ps[s].life = "alive"
    /\ ~StmtBorrowed(s) /\ ~StmtHeld(s)
    /\ BindDone("bind_null", "sqlite3_bind_null", s, i, NullV, SqliteBind(vm[s], i, NullV))

BindInt(s, i, value) ==
    /\ ps[s].life = "alive"
    /\ ~StmtBorrowed(s) /\ ~StmtHeld(s)
    /\ BindDone("bind_int", "sqlite3_bind_int", s, i, IntV(value),
                SqliteBind(vm[s], i, IntV(value)))

\* the engine stores the integer, whatever its width
BindInt64(s, i, value) ==
    /\ ps[s].life = "alive"
    /\ ~StmtBorrowed(s) /\ ~StmtHeld(s)
    /\ BindDone("bind_int64", "sqlite3_bind_int64", s, i, Int64V(value),
                SqliteBind(vm[s], i, IntV(value)))

BindDouble(s, i, value) ==
    /\ ps[s].life = "alive"
    /\ ~StmtBorrowed(s) /\ ~StmtHeld(s)
    /\ BindDone("bind_double", "sqlite3_bind_double", s, i, DoubleV(value),
                SqliteBind(vm[s], i, DoubleV(value)))

\* bind_blob passes value.as_ptr(), a pointer into the caller's slice (not
\* null, also of an empty slice), and value.len()
BindBlob(s, i, value) ==
    /\ ps[s].life = "alive"
    /\ ~StmtBorrowed(s) /\ ~StmtHeld(s)
    /\ BindDone("bind_blob", "sqlite3_bind_blob", s, i, BlobV(value),
                SqliteBind(vm[s], i, BlobV(value)))

\* str_charstar: CString::new(s).unwrap_or(CString::new("")): a string
\* with an interior nul byte becomes the empty C string
str_charstar(t) == IF HasNul(t) THEN <<>> ELSE t

\* bind_text takes as_ptr() of the temporary CString, which is freed at
\* the end of that statement; sqlite3_bind_text then copies len bytes from
\* the freed buffer: any len bytes
DanglingRead(buf, len) == {x \in Texts : Len(x) = len}

BindText(s, i, value) ==
    /\ ps[s].life = "alive"
    /\ ~StmtBorrowed(s) /\ ~StmtHeld(s)
    /\ \E x \in DanglingRead(str_charstar(value), Len(value)) :
          BindDone("bind_text", "sqlite3_bind_text", s, i, TextV(value),
                   SqliteBind(vm[s], i, TextV(x)))

ClearBindings(s) ==
    /\ ps[s].life = "alive"
    /\ ~StmtBorrowed(s) /\ ~StmtHeld(s)
    /\ vm' = [vm EXCEPT ![s] = SqliteClearBindings(vm[s])]
    /\ ps' = [ps EXCEPT ![s].arg = NullV, ![s].bound = {}, ![s].held = TRUE]
    /\ calls' = <<Call("sqlite3_clear_bindings", s)>>
    /\ ret' = Ret("clear_bindings", s, SQLITE_OK, "", NoVal)
    /\ UNCHANGED <<db, conn, rs>>

\* execute(&'res mut self) -> ResultSet { statement: self }: no engine call
Execute(s) ==
    /\ ps[s].life = "alive"
    /\ ~StmtBorrowed(s) /\ ~StmtHeld(s)
    /\ rs[s].n < LiveCap
    /\ rs' = [rs EXCEPT ![s] = [NoRs EXCEPT !.n = rs[s].n + 1, !.rows = rs[s].rows,
                                           !.prev = rs[s].prev]]
    /\ calls' = <<>>
    /\ ret' = Ret("execute", s, SQLITE_OK, "", NoVal)
    /\ UNCHANGED <<db, conn, vm, ps>>

\* impl Drop for PreparedStatement: finalize, return code ignored;
\* sqlite3_finalize of the null pointer is a no-op
PreparedStatementDrop_nofinalize(m, h) ==
    [m |-> m, calls |-> <<>>]

PreparedStatementDrop(m, h) ==
    [m |-> IF h = NULL THEN m ELSE SqliteFinalize(m), calls |-> <<Call("sqlite3_finalize", h)>>]

DropStatement(s) ==
    /\ ps[s].life = "alive"
    /\ ~StmtBorrowed(s)
    /\ LET e == PreparedStatementDrop(vm[s], ps[s].stmt)
       IN /\ vm' = [vm EXCEPT ![s] = e.m]
          /\ calls' = e.calls
    /\ ps' = [ps EXCEPT ![s].life = "dropped"]
    /\ ret' = Ret("drop_stmt", s, SQLITE_OK, "", NoVal)
    /\ UNCHANGED <<db, conn, rs>>

\* ------------------------------------------------------------- ResultSet
\* the errors a step can end in: a primary code, or on a connection with
\* extended result codes an extended one (SQLITE_IOERR_READ)
StepErrors(ext) == {SQLITE_BUSY} \cup (IF ext THEN {ExtendedCode(SQLITE_IOERR, 1)} ELSE {})

\* sqlite3_step(S).  From 'ready' or 'row' the program advances: the next
\* row, or DONE after the last, or an error.  After DONE or an error the
\* engine resets the statement itself and runs it again from the start
\* (auto-reset, the default since 3.6.23.1), or reports MISUSE (builds with
\* SQLITE_OMIT_AUTORESET).  The result is recorded as the last error of
\* the connection, the out-of-sequence MISUSE excepted.
SqliteStep(d, m) ==
    LET rows == RowsOf(m.sql, m.bind)
        over == m.run \in {"done", "error"}
        x == IF over THEN [m EXCEPT !.run = "ready", !.pc = 0, !.conv = FALSE]
                     ELSE [m EXCEPT !.conv = FALSE]
        fin == RunToEnd(d, m.db, m.sql)
        adv == IF x.pc < Len(rows)
               THEN [code |-> SQLITE_ROW, m |-> [x EXCEPT !.run = "row", !.pc = x.pc + 1],
                     d |-> SetErrmsg(d, m.db, SQLITE_ROW)]
               ELSE IF fin.code = SQLITE_DONE
               THEN [code |-> SQLITE_DONE, m |-> [x EXCEPT !.run = "done"],
                     d |-> SetErrmsg(fin.d, m.db, SQLITE_DONE)]
               ELSE [code |-> fin.code, m |-> [x EXCEPT !.run = "error"], d |-> fin.d]
    IN IF m.est # "live"
       THEN {[code |-> SQLITE_MISUSE, m |-> [m EXCEPT !.uaf = TRUE], d |-> d]}
       ELSE {adv}
            \cup {[code |-> e, m |-> [x EXCEPT !.run = "error"], d |-> SetErrmsg(d, m.db, e)] :
                       e \in StepErrors(d[m.db].ext)}
            \cup (IF over THEN {[code |-> SQLITE_MISUSE, m |-> m, d |-> d]} ELSE {})

\* sqlite3_column_*(S, 0): the value of the current row, NULL without one
SqliteColumn(m) ==
    IF m.est = "live" /\ m.run = "row" /\ m.pc >= 1
    THEN RowsOf(m.sql, m.bind)[m.pc][1]
    ELSE NullV

\* the match of ResultSet::step on from_i32::<Step>(result)
DecodeStep_swapped(code) ==
    IF code = SQLITE_ROW THEN "done"
    ELSE IF code = SQLITE_DONE THEN "row"
    ELSE "error"

DecodeStep(code) ==
    IF code = SQLITE_ROW THEN "row"
    ELSE IF code = SQLITE_DONE THEN "done"
    ELSE "error"

\* get_detail(&mut self): detail_db().map(_errmsg)
get_detail(d, s) ==
    LET dd == detail_db(s)
    IN [detail |-> IF dd.db.some THEN Detail(SqliteErrmsg(d, dd.db.h)) ELSE NoDetail,
        calls |-> dd.calls \o (IF dd.db.some THEN <<Call("sqlite3_errmsg", dd.db.h)>> ELSE <<>>)]

\* step(&'row mut self): Ok(Some(ResultRow { rows: self })), Ok(None) or
\* Err(error_result(result, "step", get_detail()))
Step(s) ==
    /\ rs[s].n >= 1
    /\ ~RsBorrowed(s)
    /\ rs[s].rows < LiveCap
    /\ \E out \in SqliteStep(db, vm[s]) :
        LET kind == DecodeStep(out.code)
            val == SqliteColumn(out.m)
            first == rs[s].end = "no"
            gd == get_detail(out.d, s)
            r == error_result(out.code, "step", gd.detail)
        IN /\ vm' = [vm EXCEPT ![s] = out.m]
           /\ db' = out.d
           /\ rs' = [rs EXCEPT ![s].rows = IF kind = "row" THEN @ + 1 ELSE @,
                                ![s].got = IF first /\ kind = "row" THEN Append(@, <<val>>) ELSE @,
                                ![s].cur = IF kind = "row" THEN val ELSE NoVal,
                                ![s].end = IF first /\ kind # "row" THEN kind ELSE @,
                                ![s].again = ~first]
           /\ calls' = <<Call("sqlite3_step", s)>> \o (IF kind = "error" THEN gd.calls ELSE <<>>)
           /\ ret' = IF kind = "error"
                     THEN [RetOf("step", s, r, NoVal) EXCEPT
                              !.kind = IF r.panic THEN "panic" ELSE "error"]
                     ELSE Ret("step", s, out.code, kind, IF kind = "row" THEN val ELSE NoVal)
    /\ UNCHANGED <<conn, ps>>

\* impl Drop for ResultSet: reset, return code ignored
ResultSetDrop_noreset(m, h) ==
    [m |-> m, calls |-> <<>>]

ResultSetDrop_clears(m, h) ==
    [m |-> SqliteClearBindings(SqliteReset(m)),
     calls |-> <<Call("sqlite3_reset", h), Call("sqlite3_clear_bindings", h)>>]

ResultSetDrop(m, h) ==
    [m |-> SqliteReset(m), calls |-> <<Call("sqlite3_reset", h)>>]

\* a pass dropped after k < n rows, with no 'done' and no error: k
Partial(r, m) ==
    IF r.end = "no" /\ Len(r.got) < m.sql.n THEN Len(r.got) ELSE NoPartial

DropResultSet(s) ==
    /\ rs[s].n >= 1
    /\ ~RsBorrowed(s)
    /\ LET e == ResultSetDrop(vm[s], ps[s].stmt)
       IN /\ vm' = [vm EXCEPT ![s] = e.m]
          /\ calls' = e.calls
    /\ rs' = [rs EXCEPT ![s] = [NoRs EXCEPT !.n = rs[s].n - 1, !.rows = rs[s].rows,
                                           !.prev = Partial(rs[s], vm[s])]]
    /\ ret' = Ret("drop_rs", s, SQLITE_OK, vm[s].run, NoVal)
    /\ UNCHANGED <<db, conn, ps>>

\* ------------------------------------------------------------- ResultRow
\* column_int / column_text / ...: sqlite3_column_*(stmt, 0)
Column(s) ==
    /\ rs[s].rows >= 1
    /\ vm' = [vm EXCEPT ![s] = IF vm[s].est # "live" THEN [@ EXCEPT !.uaf = TRUE] ELSE @]
    /\ calls' = <<Call("sqlite3_column", s)>>
    /\ ret' = Ret("column", s, SQLITE_OK, "", SqliteColumn(vm[s]))
    /\ UNCHANGED <<db, conn, ps, rs>>

\* sqlite3_column_type of the current value.  Once column_text or
\* column_blob has converted the value, the engine leaves the type it
\* reports undefined: any datatype, NULL only of NULL.
ColumnTypes(v, conv) ==
    IF v.k = "null" THEN {SQLITE_NULL}
    ELSE IF conv THEN {SQLITE_INTEGER, SQLITE_FLOAT, SQLITE_TEXT, SQLITE_BLOB}
    ELSE {TypeOf(v)}

\* a read as text (k = "text") or as a blob converts any other non-null value
Converts(v, k) == v.k # "null" /\ v.k # k

column_int(v) == IntV(AsNumber(v))
column_int64(v) == Int64V(AsNumber(v))
column_double(v) == DoubleV(AsNumber(v))

\* column_text: charstar_str of the pointer: None of the null pointer the
\* engine gives for NULL, else the bytes up to the first nul
column_text(v) == IF v.k = "null" THEN NoVal ELSE TextV(UpToNul(AsBytes(v)))

\* column_blob: None of the null pointer, which the engine gives for NULL
\* and for a value of no bytes, else sqlite3_column_bytes bytes
column_blob(v) == IF v.k = "null" \/ AsBytes(v) = <<>> THEN NoVal ELSE BlobV(AsBytes(v))

\* a column getter of ResultRow on column 0
RowRead(s, op, f, val, conv) ==
    /\ rs[s].rows >= 1
    /\ vm' = [vm EXCEPT ![s] = IF vm[s].est # "live" THEN [@ EXCEPT !.uaf = TRUE]
                                ELSE [@ EXCEPT !.conv = @ \/ conv]]
    /\ calls' = f
    /\ ret' = Ret(op, s, SQLITE_OK, "ok", val)
    /\ UNCHANGED <<db, conn, ps, rs>>

ColumnInt(s) ==
    RowRead(s, "column_int", <<Call("sqlite3_column_int", s)>>,
            column_int(SqliteColumn(vm[s])), FALSE)

ColumnInt64(s) ==
    RowRead(s, "column_int64", <<Call("sqlite3_column_int64", s)>>,
            column_int64(SqliteColumn(vm[s])), FALSE)

ColumnDouble(s) ==
    RowRead(s, "column_double", <<Call("sqlite3_column_double", s)>>,
            column_double(SqliteColumn(vm[s])), FALSE)

ColumnText(s) ==
    RowRead(s, "column_text", <<Call("sqlite3_column_text", s)>>,
            column_text(SqliteColumn(vm[s])), Converts(SqliteColumn(vm[s]), "text"))

ColumnBlob(s) ==
    RowRead(s, "column_blob",
            <<Call("sqlite3_column_blob", s)>>
                \o (IF column_blob(SqliteColumn(vm[s])) = NoVal THEN <<>>
                    ELSE <<Call("sqlite3_column_bytes", s)>>),
            column_blob(SqliteColumn(vm[s])), Converts(SqliteColumn(vm[s]), "blob"))

ColumnType(s) ==
    \E t \in ColumnTypes(SqliteColumn(vm[s]), vm[s].conv) :
        RowRead(s, "column_type", <<Call("sqlite3_column_type", s)>>, IntV(t), FALSE)

\* ------------------------------------------------------------- FromSql
\* FromSql::from_sql of i32, i64, f64 and String
FromSqlCall(T) ==
    IF T = "i32" THEN "sqlite3_column_int"
    ELSE IF T = "i64" THEN "sqlite3_column_int64"
    ELSE IF T = "f64" THEN "sqlite3_column_double"
    ELSE "sqlite3_column_text"

FromSql(T, v) ==
    IF T = "i32" THEN column_int(v)
    ELSE IF T = "i64" THEN column_int64(v)
    ELSE IF T = "f64" THEN column_double(v)
    ELSE IF column_text(v) = NoVal THEN TextV(<<>>) ELSE column_text(v)

\* impl FromSql for Option<T>: None when column_type reports t = NULL (None
\* is NoVal, Some(x) is x)
OptionFromSql_unchecked(T, v, t) == FromSql(T, v)

OptionFromSql(T, v, t) == IF t = SQLITE_NULL THEN NoVal ELSE FromSql(T, v)

Types == [T : {"i32", "i64", "f64", "String"}, opt : BOOLEAN]

\* get_opt::<ColIx, T>(0): RowIndex for ColIx is Some(idx), then T::from_sql
GetOpt(s, ty) ==
    /\ rs[s].rows >= 1
    /\ LET v == SqliteColumn(vm[s])
       IN \E t \in (IF ty.opt THEN ColumnTypes(v, vm[s].conv) ELSE {TypeOf(v)}) :
            LET val == IF ty.opt THEN OptionFromSql(ty.T, v, t) ELSE FromSql(ty.T, v)
                read == ~ty.opt \/ val # NoVal
            IN /\ vm' = [vm EXCEPT ![s].conv = @ \/ (read /\ ty.T = "String" /\ Converts(v, "text"))]
               /\ calls' = (IF ty.opt THEN <<Call("sqlite3_column_type", s)>> ELSE <<>>)
                            \o (IF read THEN <<Call(FromSqlCall(ty.T), s)>> ELSE <<>>)
               /\ ret' = [Ret("get_opt", s, SQLITE_OK, "ok", val) EXCEPT !.ty = ty]
    /\ UNCHANGED <<db, conn, ps, rs>>

\* ------------------------------------------------------------- timestamps
\* a time::Timespec { sec, nsec }, of the first minute after the epoch
HalfSecond == 500000000
TimeV(sec, nsec) == [k |-> "time", v |-> <<sec, nsec>>]
Timespecs == {TimeV(sec, nsec) : sec \in 0..MaxSec, nsec \in {0, HalfSecond}}

\* SQLITE_TIME_FMT = "%F %T" of at_utc(t): "1970-01-01 00:00:SS"
EpochMinute == <<49, 57, 55, 48, 45, 48, 49, 45, 48, 49, 32, 48, 48, 58, 48, 48, 58>>
strftime(t) == EpochMinute \o <<Digit0 + (t.v[1] \div 10), Digit0 + (t.v[1] % 10)>>

\* strptime(txt, "%F %T"), then Tm::to_timespec: the second the text names,
\* NoVal of a text that is no "%F %T" time
strptime(txt) ==
    IF \E t \in Timespecs : strftime(t) = txt
    THEN TimeV((CHOOSE t \in Timespecs : strftime(t) = txt).v[1], 0)
    ELSE NoVal

\* texts of the length of a "%F %T" time: the times, and one that is none
NoTimeText == [i \in 1..(Len(EpochMinute) + 2) |-> LetterA]
TimeTexts == {strftime(t) : t \in Timespecs} \cup {NoTimeText}

\* the errors FromSql for Tm makes of NULL ("null") and of a text that does
\* not parse (the message of the parser)
Mismatch(desc) ==
    [code |-> SQLITE_MISMATCH, kind |-> "err", desc |-> desc, detail |-> NoDetail,
     panic |-> FALSE, calls |-> <<>>]

\* ToSql for Timespec: bind_text(ix, at_utc(t).strftime("%F %T")); bind_text
\* reads the text of the freed temporary CString, which the bytes of any
\* text of its length may have replaced
ToSqlTimespec(s, i, t) ==
    /\ ps[s].life = "alive"
    /\ ~StmtBorrowed(s) /\ ~StmtHeld(s)
    /\ \E x \in {y \in TimeTexts : Len(y) = Len(strftime(t))} :
          BindDone("to_sql_timespec", "sqlite3_bind_text", s, i, t,
                   SqliteBind(vm[s], i, TextV(x)))

\* FromSql for Timespec on column 0: FromSql for Tm (column_text, strptime)
\* mapped through to_timespec
FromSqlTimespec(s) ==
    /\ rs[s].rows >= 1
    /\ LET v == SqliteColumn(vm[s])
           txt == column_text(v)
           tm == IF txt = NoVal THEN NoVal ELSE strptime(txt.v)
       IN /\ vm' = [vm EXCEPT ![s].conv = @ \/ Converts(v, "text")]
          /\ calls' = <<Call("sqlite3_column_text", s)>>
          /\ ret' = IF tm = NoVal
                    THEN RetOf("from_sql_timespec", s,
                               Mismatch(IF txt = NoVal THEN "null" ELSE "strptime"), NoVal)
                    ELSE Ret("from_sql_timespec", s, SQLITE_OK, "ok", tm)
    /\ UNCHANGED <<db, conn, ps, rs>>

\* ------------------------------------------------------------- columns
\* a ColIx (u32) is written as the c_int that `i as c_int` makes of it:
\* TopColIx is the ColIx 0xFFFFFFFF, the largest there is
TopColIx == 0 - 1
ColIndexes == {TopColIx} \cup 0..MaxColIx
ColNames == {"a", "b", "c"}
ColIxV(i) == [k |-> "ix", v |-> <<i>>]
NameV(name) == [k |-> "name", v |-> <<name>>]

\* sqlite3_column_count(S)
SqliteColumnCount(m) == IF m.est = "live" THEN Len(m.sql.cols) ELSE 0

\* sqlite3_column_name(S, n): the null pointer when there is no column n
NoName == [some |-> FALSE, name |-> ""]
SqliteColumnName(m, n) ==
    IF m.est = "live" /\ n >= 0 /\ n < Len(m.sql.cols)
    THEN [some |-> TRUE, name |-> m.sql.cols[n + 1]]
    ELSE NoName

\* sqlite3_column_*(S, col): the value of column col of the current row,
\* NULL when there is no such column
SqliteColumnAt(m, col) ==
    IF m.est = "live" /\ m.run = "row" /\ m.pc >= 1 /\ col >= 0 /\ col < Len(m.sql.cols)
    THEN RowsOf(m.sql, m.bind)[m.pc][col + 1]
    ELSE NullV

column_count(m) == SqliteColumnCount(m)

\* the f of the callers of the model: it records that it ran, and on what
Applied(name) == [k |-> "f", v |-> <<name>>]
Closures == [name \in ColNames \cup {NoName.name, BadName} |-> Applied(name)]

\* str::from_utf8 of the bytes is Ok
ValidText(name) == name # BadName

\* charstar_str: None of the null pointer, else the bytes up to the nul as
\* a str by str::from_utf8_unchecked, which looks at none of them
charstar_str(p) == [some |-> p.some, str |-> p.name]

\* with_column_name(i, default, f) on the row of statement m; the closure f
\* is the function of the names it is applied to
with_column_name_always(m, i, default, f) ==
    LET result == SqliteColumnName(m, i)
    IN f[result.name]

with_column_name(m, i, default, f) ==
    LET result == charstar_str(SqliteColumnName(m, i))
    IN IF result.some THEN f[result.str] ELSE default

ColumnCount(s) ==
    /\ rs[s].rows >= 1
    /\ calls' = <<Call("sqlite3_column_count", s)>>
    /\ ret' = Ret("column_count", s, SQLITE_OK, "ok", IntV(column_count(vm[s])))
    /\ UNCHANGED <<db, conn, vm, ps, rs>>

WithColumnName(s, i) ==
    /\ rs[s].rows >= 1
    /\ LET val == with_column_name(vm[s], i, NoVal, Closures)
       IN /\ calls' = <<Call("sqlite3_column_name", s)>>
                        \o (IF val # NoVal THEN <<Call("f", s)>> ELSE <<>>)
          /\ ret' = [Ret("with_column_name", s, SQLITE_OK, "ok", val) EXCEPT !.idx = ColIxV(i)]
    /\ UNCHANGED <<db, conn, vm, ps, rs>>

\* impl RowIndex for &'static str: (0 .. column_count()).find(..) from ix on
NoIx == [some |-> FALSE, ix |-> 0]
RECURSIVE find(_, _, _, _)
find(m, ix, end, name) ==
    IF ix >= end THEN NoIx
    ELSE IF with_column_name(m, ix, FALSE, [n \in ColNames |-> n = name]) THEN [some |-> TRUE, ix |-> ix]
    ELSE find(m, ix + 1, end, name)

RowIndexStr_last(m, name) ==
    LET hits == {k \in 0..(column_count(m) - 1) : m.sql.cols[k + 1] = name}
    IN IF hits = {} THEN NoIx
       ELSE [some |-> TRUE, ix |-> CHOOSE k \in hits : \A j \in hits : j <= k]

RowIndexStr(m, name) == find(m, 0, column_count(m), name)

\* the error get_opt makes of an index that is no column
NoSuchRow(idx) ==
    [code |-> SQLITE_MISUSE, kind |-> "err", desc |-> "no such row name/number",
     detail |-> Detail(idx), panic |-> FALSE, calls |-> <<>>]

\* get_opt::<&str, T>(name): idx.idx(self), then T::from_sql(self, idx)
GetOptByName(s, name, ty) ==
    /\ rs[s].rows >= 1
    /\ LET idx == RowIndexStr(vm[s], name)
           scanned == IF idx.some THEN idx.ix + 1 ELSE column_count(vm[s])
           scan == <<Call("sqlite3_column_count", s)>>
                   \o [k \in 1..scanned |-> Call("sqlite3_column_name", s)]
           v == SqliteColumnAt(vm[s], idx.ix)
       IN IF ~idx.some
          THEN /\ vm' = vm
               /\ calls' = scan
               /\ ret' = [RetOf("get_opt_name", s, NoSuchRow(name), NoVal)
                            EXCEPT !.ty = ty, !.idx = NameV(name)]
          ELSE \E t \in (IF ty.opt THEN ColumnTypes(v, vm[s].conv) ELSE {TypeOf(v)}) :
                LET val == IF ty.opt THEN OptionFromSql(ty.T, v, t) ELSE FromSql(ty.T, v)
                    read == ~ty.opt \/ val # NoVal
                IN /\ vm' = [vm EXCEPT ![s].conv =
                                @ \/ (read /\ ty.T = "String" /\ Converts(v, "text"))]
                   /\ calls' = scan
                        \o (IF ty.opt THEN <<Call("sqlite3_column_type", s)>> ELSE <<>>)
                        \o (IF read THEN <<Call(FromSqlCall(ty.T), s)>> ELSE <<>>)
                   /\ ret' = [Ret("get_opt_name", s, SQLITE_OK, "ok", val)
                                EXCEPT !.ty = ty, !.idx = NameV(name)]
    /\ UNCHANGED <<db, conn, ps, rs>>

\* impl RowIndex for ColIx: Some(*self), whatever the row's column count
RowIndexColIx(m, i) == [some |-> TRUE, ix |-> i]

\* get_opt::<ColIx, T>(i): idx.idx(self), then T::from_sql(self, idx)
GetOptIx(s, i, ty) ==
    /\ rs[s].rows >= 1
    /\ LET idx == RowIndexColIx(vm[s], i)
           v == SqliteColumnAt(vm[s], idx.ix)
       IN IF ~idx.some
          THEN /\ vm' = vm
               /\ calls' = <<>>
               /\ ret' = [RetOf("get_opt_ix", s, NoSuchRow(i), NoVal)
                            EXCEPT !.ty = ty, !.idx = ColIxV(i)]
          ELSE \E t \in (IF ty.opt THEN ColumnTypes(v, vm[s].conv) ELSE {TypeOf(v)}) :
                LET val == IF ty.opt THEN OptionFromSql(ty.T, v, t) ELSE FromSql(ty.T, v)
                    read == ~ty.opt \/ val # NoVal
                IN /\ vm' = [vm EXCEPT ![s].conv =
                                @ \/ (read /\ ty.T = "String" /\ Converts(v, "text"))]
                   /\ calls' = (IF ty.opt THEN <<Call("sqlite3_column_type", s)>> ELSE <<>>)
                        \o (IF read THEN <<Call(FromSqlCall(ty.T), s)>> ELSE <<>>)
                   /\ ret' = [Ret("get_opt_ix", s, SQLITE_OK, "ok", val)
                                EXCEPT !.ty = ty, !.idx = ColIxV(i)]
    /\ UNCHANGED <<db, conn, ps, rs>>

\* the ResultRow goes out of scope
DropRow(s) ==
    /\ rs[s].rows >= 1
    /\ rs' = [rs EXCEPT ![s].rows = @ - 1]
    /\ calls' = <<>>
    /\ ret' = Ret("drop_row", s, SQLITE_OK, "", NoVal)
    /\ UNCHANGED <<db, conn, vm, ps>>

\* ------------------------------------------------------------- convenience
\* ToSql::to_sql of i32, String and Option<T>: the bind it calls
ToSqlBind(v) ==
    IF v.k = "int" THEN "sqlite3_bind_int"
    ELSE IF v.k = "text" THEN "sqlite3_bind_text"
    ELSE "sqlite3_bind_null"

\* let p = ix as ParamIx + 1: the position of the ix-th value (values[ix]
\* here is the values[ix - 1] of the source)
ParamOf_same(ix) == ix - 1

ParamOf(ix) == (ix - 1) + 1

\* bind_values(s, values) from values[ix] on: to_sql(s, ix) in increasing
\* ix, returning at the first error (arg: the value bound at position 1,
\* done: the number of values bound)
RECURSIVE bind_values(_, _, _, _, _, _)
bind_values(d, m, arg, s, values, ix) ==
    IF ix > Len(values)
    THEN [r |-> OkResult, d |-> d, m |-> m, arg |-> arg,
          calls |-> <<>>, done |-> ix - 1]
    ELSE LET out == SqliteBind(m, ParamOf(ix), values[ix])
             d1 == SetErrmsg(d, m.db, out.code)
             dd == detail_db(s)
             r == decode_result(d1, out.code, ToSqlBind(values[ix]), dd.db)
             c1 == <<Call(ToSqlBind(values[ix]), s)>> \o dd.calls \o r.calls
             a1 == IF r.kind = "ok" /\ ParamOf(ix) = 1 THEN values[ix] ELSE arg
         IN IF r.kind # "ok"
            THEN [r |-> r, d |-> d1, m |-> out.m, arg |-> a1, calls |-> c1, done |-> ix - 1]
            ELSE LET rest == bind_values(d1, out.m, a1, s, values, ix + 1)
                 IN [rest EXCEPT !.calls = c1 \o @]

\* the values update was given
ValuesV(values) == [k |-> "values", v |-> <<values>>]

\* the error update makes of a row
UnexpectedRow ==
    [code |-> SQLITE_MISUSE, kind |-> "err", desc |-> "unexpected SQLITE_ROW from update",
     detail |-> NoDetail, panic |-> FALSE, calls |-> <<>>]

\* the match of update on the single step: None => Ok(()), Some(_row) => Err
UpdateCheck_rowok(kind, r) ==
    IF kind = "error" THEN r
    ELSE OkResult

UpdateCheck(kind, r) ==
    IF kind = "error" THEN r
    ELSE IF kind = "row" THEN UnexpectedRow
    ELSE OkResult

\* DatabaseUpdate::update(&'db self, stmt, values): bind_values, execute,
\* one step, the drop of the ResultSet, and changes() when the step was
\* 'done'
Update(c, s, values) ==
    /\ conn[c].life = "alive"
    /\ ps[s].life = "alive"
    /\ ~StmtBorrowed(s) /\ ~StmtHeld(s)
    /\ LET b == bind_values(db, vm[s], ps[s].arg, s, values, 1)
       IN IF b.r.kind # "ok"
          THEN /\ db' = b.d
               /\ vm' = [vm EXCEPT ![s] = b.m]
               /\ ps' = [ps EXCEPT ![s].arg = b.arg, ![s].bound = @ \cup 1..b.done]
               /\ calls' = b.calls
               /\ ret' = [RetOf("update", s, b.r, NoVal) EXCEPT !.idx = ValuesV(values)]
               /\ rs' = rs
          ELSE \E out \in SqliteStep(b.d, b.m) :
                LET kind == DecodeStep(out.code)
                    gd == get_detail(out.d, s)
                    r == UpdateCheck(kind, error_result(out.code, "step", gd.detail))
                    e == ResultSetDrop(out.m, ps[s].stmt)
                    pass == [NoRs EXCEPT !.got = IF kind = "row" THEN <<SqliteColumn(out.m)>> ELSE <<>>,
                                         !.end = IF kind = "row" THEN "no" ELSE kind]
                IN /\ db' = out.d
                   /\ vm' = [vm EXCEPT ![s] = e.m]
                   /\ ps' = [ps EXCEPT ![s].arg = b.arg, ![s].bound = @ \cup 1..b.done]
                   /\ calls' = b.calls \o <<Call("sqlite3_step", s)>>
                                \o (IF kind = "error" THEN gd.calls ELSE <<>>)
                                \o e.calls
                                \o (IF r.kind = "ok" THEN <<Call("sqlite3_changes", conn[c].db)>>
                                    ELSE <<>>)
                   /\ ret' = [RetOf("update", s, r,
                                    IF r.kind = "ok" THEN IntV(out.d[conn[c].db].changes) ELSE NoVal)
                                 EXCEPT !.inner = out.code, !.idx = ValuesV(values)]
                   /\ rs' = [rs EXCEPT ![s].prev = Partial(pass, out.m)]
    /\ UNCHANGED conn

\* the caller's each_row: a FnMut, the function of the number of the call
\* to its result (TRUE: Ok(()), FALSE: Err(EachRowError))
EachRows == [1..MaxRows -> BOOLEAN]
EachRowError ==
    [code |-> SQLITE_ERROR, kind |-> "err", desc |-> "each_row",
     detail |-> NoDetail, panic |-> FALSE, calls |-> <<>>]

\* try!(each_row(row)) in the loop of query: go on, or return the error
TryEachRow_ignore(ok) == "continue"

TryEachRow(ok) == IF ok THEN "continue" ELSE "return"

\* what query was given and the rows it handed to each_row
QueryV(values, each_row) == [k |-> "query", v |-> <<values, each_row>>]
RowsV(seen) == [k |-> "rows", v |-> seen]

\* the loop of query from the state (d, m) of the engine, after each_row
\* saw the rows seen: every way it can end (end: 'done', 'error' of a step,
\* 'no' when each_row returned the error)
RECURSIVE query_loop(_, _, _, _, _)
query_loop(d, m, s, each_row, seen) ==
    UNION {
        LET kind == DecodeStep(out.code)
            gd == get_detail(out.d, s)
            row == SqliteColumn(out.m)
            now == Append(seen, row)
        IN IF kind = "error"
           THEN {[r |-> error_result(out.code, "step", gd.detail), d |-> out.d, m |-> out.m,
                  seen |-> seen, end |-> kind, inner |-> out.code,
                  calls |-> <<Call("sqlite3_step", s)>> \o gd.calls]}
           ELSE IF kind = "done"
           THEN {[r |-> OkResult, d |-> out.d, m |-> out.m, seen |-> seen, end |-> kind,
                  inner |-> out.code, calls |-> <<Call("sqlite3_step", s)>>]}
           ELSE IF TryEachRow(each_row[Len(now)]) = "return"
           THEN {[r |-> EachRowError, d |-> out.d, m |-> out.m, seen |-> now, end |-> "no",
                  inner |-> out.code,
                  calls |-> <<Call("sqlite3_step", s), Call("each_row", s)>>]}
           ELSE {[x EXCEPT !.calls = <<Call("sqlite3_step", s), Call("each_row", s)>> \o @] :
                    x \in query_loop(out.d, out.m, s, each_row, now)}
        : out \in SqliteStep(d, m)}

\* Query::query(&'s mut self, values, each_row): bind_values, execute, the
\* loop of steps, and the drop of the ResultSet on the way out
Query(s, values, each_row) ==
    /\ ps[s].life = "alive"
    /\ ~StmtBorrowed(s) /\ ~StmtHeld(s)
    /\ LET b == bind_values(db, vm[s], ps[s].arg, s, values, 1)
       IN IF b.r.kind # "ok"
          THEN /\ db' = b.d
               /\ vm' = [vm EXCEPT ![s] = b.m]
               /\ ps' = [ps EXCEPT ![s].arg = b.arg, ![s].bound = @ \cup 1..b.done]
               /\ calls' = b.calls
               /\ ret' = [RetOf("query", s, b.r, RowsV(<<>>))
                             EXCEPT !.idx = QueryV(values, each_row)]
               /\ rs' = rs
          ELSE \E x \in query_loop(b.d, b.m, s, each_row, <<>>) :
                LET e == ResultSetDrop(x.m, ps[s].stmt)
                    pass == [NoRs EXCEPT !.got = [i \in 1..Len(x.seen) |-> <<x.seen[i]>>],
                                         !.end = x.end]
                IN /\ db' = x.d
                   /\ vm' = [vm EXCEPT ![s] = e.m]
                   /\ ps' = [ps EXCEPT ![s].arg = b.arg, ![s].bound = @ \cup 1..b.done]
                   /\ calls' = b.calls \o x.calls \o e.calls
                   /\ ret' = [RetOf("query", s, x.r, RowsV(x.seen))
                                 EXCEPT !.inner = x.inner, !.idx = QueryV(values, each_row)]
                   /\ rs' = [rs EXCEPT ![s].prev = Partial(pass, x.m)]
    /\ UNCHANGED conn

\* ------------------------------------------------------------- threads
\* DatabaseConnection and PreparedStatement hold a raw pointer (*mut
\* ffi::sqlite3, *mut ffi::sqlite3_stmt) and no Send or Sync is implemented
\* for them, so they are neither: a value can be neither moved to nor
\* borrowed from another thread than the one it was made on. ResultSet and
\* ResultRow hold a &mut to a PreparedStatement and follow it.
ConnOnThread_any(t, c) == TRUE

ConnOnThread(t, c) == threads.conn[c] = t

StmtOnThread_any(t, s) == TRUE

StmtOnThread(t, s) == threads.stmt[s] = t

\* thread t ran the operation: the values it made live on t
By(t) ==
    threads' = [cur |-> t,
                conn |-> [c \in ConnIds |->
                            IF conn[c].life = "none" /\ conn'[c].life # "none" THEN t
                            ELSE threads.conn[c]],
                stmt |-> [s \in StmtIds |->
                            IF ps[s].life # "alive" /\ ps'[s].life = "alive" THEN t
                            ELSE threads.stmt[s]]]

\* a program of one thread
OnMainThread == By(MainThread)

\* ------------------------------------------------------------- specifications
\* connections and the statements and result sets that borrow them; no
\* statement is stepped here, so one valid SQL text stands for all
ConnSql == {q \in SqlTexts : q.n = 0}

\* the connections InMemory and ByFilename open: primary result codes only
PrimaryCodes == \A h \in ConnIds : ~db'[h].ext

Next ==
    \/ New /\ PrimaryCodes /\ OnMainThread
    \/ \E c \in ConnIds : DropConnection(c) /\ OnMainThread
    \/ \E c \in ConnIds, sql \in ConnSql : Prepare(c, sql) /\ OnMainThread
    \/ \E s \in StmtIds : Execute(s) /\ OnMainThread
    \/ \E s \in StmtIds : DropResultSet(s) /\ OnMainThread
    \/ \E s \in StmtIds : DropStatement(s) /\ OnMainThread

Spec == Init /\ [][Next]_vars

\* one statement, with its bindings and its passes
NextStmt ==
    \/ conn[1].life = "none" /\ New /\ PrimaryCodes /\ OnMainThread
    \/ \E c \in ConnIds : DropConnection(c) /\ OnMainThread
    \/ \E c \in ConnIds, sql \in SqlTexts : ps[1].life = "none" /\ Prepare(c, sql) /\ OnMainThread
    \/ \E s \in StmtIds, i \in Positions : BindNull(s, i) /\ OnMainThread
    \/ \E s \in StmtIds, i \in Positions, v \in IntVals : BindInt(s, i, v) /\ OnMainThread
    \/ \E s \in StmtIds, i \in Positions, t \in Texts : BindText(s, i, t) /\ OnMainThread
    \/ \E s \in StmtIds : ClearBindings(s) /\ OnMainThread
    \/ \E s \in StmtIds : Execute(s) /\ OnMainThread
    \/ \E s \in StmtIds : DropStatement(s) /\ OnMainThread
    \/ \E s \in StmtIds : Step(s) /\ OnMainThread
    \/ \E s \in StmtIds : DropResultSet(s) /\ OnMainThread
    \/ \E s \in StmtIds : Column(s) /\ OnMainThread
    \/ \E s \in StmtIds : DropRow(s) /\ OnMainThread

SpecStmt == Init /\ [][NextStmt]_vars

\* one connection and one statement, with the operations that fail and
\* the switches of the error detail
ErrSql == {q \in SqlTexts : q.n = 1} \cup {BogusSql}

NextErr ==
    \/ conn[1].life = "none" /\ New /\ OnMainThread
    \/ \E c \in ConnIds : DropConnection(c) /\ OnMainThread
    \/ \E c \in ConnIds : IgnoreDetail(c) /\ OnMainThread
    \/ \E c \in ConnIds : Errmsg(c) /\ OnMainThread
    \/ \E c \in ConnIds, sql \in ErrSql, nul \in BOOLEAN : Exec(c, sql, nul) /\ OnMainThread
    \/ \E c \in ConnIds : BusyTimeout(c, TwoSeconds) /\ OnMainThread
    \/ \E c \in ConnIds, sql \in ErrSql : ps[1].life = "none" /\ Prepare(c, sql) /\ OnMainThread
    \/ \E s \in StmtIds : StmtIgnoreDetail(s) /\ OnMainThread
    \/ \E s \in StmtIds, i \in Positions, v \in IntVals : BindInt(s, i, v) /\ OnMainThread
    \/ \E s \in StmtIds : Execute(s) /\ OnMainThread
    \/ \E s \in StmtIds : Step(s) /\ OnMainThread
    \/ \E s \in StmtIds : DropRow(s) /\ OnMainThread
    \/ \E s \in StmtIds : DropResultSet(s) /\ OnMainThread
    \/ \E s \in StmtIds : DropStatement(s) /\ OnMainThread

SpecErr == Init /\ [][NextErr]_vars

\* one connection with its table and one statement: exec, the counters of
\* the connection, and update
DataSql == {InsertSql} \cup {q \in SqlTexts : q.n = 1}
UpdateValues == {<<>>, <<IntV(1)>>, <<NullV, IntV(1)>>}

NextData ==
    \/ conn[1].life = "none" /\ New /\ PrimaryCodes /\ OnMainThread
    \/ \E c \in ConnIds : DropConnection(c) /\ OnMainThread
    \/ \E c \in ConnIds, sql \in {CreateSql, InsertSql} : Exec(c, sql, FALSE) /\ OnMainThread
    \/ \E c \in ConnIds : Changes(c) /\ OnMainThread
    \/ \E c \in ConnIds : LastInsertRowid(c) /\ OnMainThread
    \/ \E c \in ConnIds, sql \in DataSql : ps[1].life = "none" /\ Prepare(c, sql) /\ OnMainThread
    \/ \E s \in StmtIds : Execute(s) /\ OnMainThread
    \/ \E s \in StmtIds : Step(s) /\ OnMainThread
    \/ \E s \in StmtIds : DropRow(s) /\ OnMainThread
    \/ \E s \in StmtIds : DropResultSet(s) /\ OnMainThread
    \/ \E s \in StmtIds : DropStatement(s) /\ OnMainThread
    \/ \E c \in ConnIds, s \in StmtIds, values \in UpdateValues : Update(c, s, values) /\ OnMainThread

SpecData == Init /\ [][NextData]_vars

\* one statement "select ?1 as a": a value of every kind bound, the row
\* stepped to and read back through every getter
ValSql == {q \in SqlTexts : q.n = 1}
ValPositions == {1}
Numbers == {0, 1}

NextVal ==
    \/ conn[1].life = "none" /\ New /\ PrimaryCodes /\ OnMainThread
    \/ \E c \in ConnIds : DropConnection(c) /\ OnMainThread
    \/ \E c \in ConnIds, sql \in ValSql : ps[1].life = "none" /\ Prepare(c, sql) /\ OnMainThread
    \/ \E s \in StmtIds, i \in ValPositions : BindNull(s, i) /\ OnMainThread
    \/ \E s \in StmtIds, i \in ValPositions, v \in Numbers : BindInt(s, i, v) /\ OnMainThread
    \/ \E s \in StmtIds, i \in ValPositions, v \in Numbers : BindInt64(s, i, v) /\ OnMainThread
    \/ \E s \in StmtIds, i \in ValPositions, v \in Numbers : BindDouble(s, i, v) /\ OnMainThread
    \/ \E s \in StmtIds, i \in ValPositions, t \in Texts : BindText(s, i, t) /\ OnMainThread
    \/ \E s \in StmtIds, i \in ValPositions, b \in Texts : BindBlob(s, i, b) /\ OnMainThread
    \/ \E s \in StmtIds : Execute(s) /\ OnMainThread
    \/ \E s \in StmtIds : Step(s) /\ OnMainThread
    \/ \E s \in StmtIds : ColumnInt(s) /\ OnMainThread
    \/ \E s \in StmtIds : ColumnInt64(s) /\ OnMainThread
    \/ \E s \in StmtIds : ColumnDouble(s) /\ OnMainThread
    \/ \E s \in StmtIds : ColumnText(s) /\ OnMainThread
    \/ \E s \in StmtIds : ColumnBlob(s) /\ OnMainThread
    \/ \E s \in StmtIds : ColumnType(s) /\ OnMainThread
    \/ \E s \in StmtIds, ty \in Types : GetOpt(s, ty) /\ OnMainThread
    \/ \E s \in StmtIds : DropRow(s) /\ OnMainThread
    \/ \E s \in StmtIds : DropResultSet(s) /\ OnMainThread
    \/ \E s \in StmtIds : DropStatement(s) /\ OnMainThread

SpecVal == Init /\ [][NextVal]_vars

\* one statement, of one or of three result columns two of which share a
\* name: its columns counted, named and read by name
ColSql == {WideSql} \cup {q \in SqlTexts : q.n = 1}
ColTypes == {ty \in Types : ty.T \in {"i32", "String"}}

NextCols ==
    \/ conn[1].life = "none" /\ New /\ PrimaryCodes /\ OnMainThread
    \/ \E c \in ConnIds : DropConnection(c) /\ OnMainThread
    \/ \E c \in ConnIds, sql \in ColSql : ps[1].life = "none" /\ Prepare(c, sql) /\ OnMainThread
    \/ \E s \in StmtIds, i \in ValPositions : BindNull(s, i) /\ OnMainThread
    \/ \E s \in StmtIds, i \in ValPositions, v \in Numbers : BindInt(s, i, v) /\ OnMainThread
    \/ \E s \in StmtIds : Execute(s) /\ OnMainThread
    \/ \E s \in StmtIds : Step(s) /\ OnMainThread
    \/ \E s \in StmtIds : ColumnCount(s) /\ OnMainThread
    \/ \E s \in StmtIds, i \in ColIndexes : WithColumnName(s, i) /\ OnMainThread
    \/ \E s \in StmtIds, name \in ColNames, ty \in ColTypes : GetOptByName(s, name, ty) /\ OnMainThread
    \/ \E s \in StmtIds, i \in 0..MaxColIx, ty \in ColTypes : GetOptIx(s, i, ty) /\ OnMainThread
    \/ \E s \in StmtIds : DropRow(s) /\ OnMainThread
    \/ \E s \in StmtIds : DropResultSet(s) /\ OnMainThread
    \/ \E s \in StmtIds : DropStatement(s) /\ OnMainThread

SpecCols == Init /\ [][NextCols]_vars

\* one statement of two parameters, "select ?1 as a, ?2 as b": values of
\* every kind bound at positions inside and outside 1..2, the row stepped to
BindSql == {PairSql}
BindPositions == 0..(PairSql.np + 1)
BindTexts == {t \in Texts : Len(t) = MaxTextLen}

NextBind ==
    \/ conn[1].life = "none" /\ New /\ PrimaryCodes /\ OnMainThread
    \/ \E c \in ConnIds : DropConnection(c) /\ OnMainThread
    \/ \E c \in ConnIds, sql \in BindSql : ps[1].life = "none" /\ Prepare(c, sql) /\ OnMainThread
    \/ \E s \in StmtIds, i \in BindPositions : BindNull(s, i) /\ OnMainThread
    \/ \E s \in StmtIds, i \in BindPositions, v \in IntVals : BindInt(s, i, v) /\ OnMainThread
    \/ \E s \in StmtIds, i \in BindPositions, v \in IntVals : BindInt64(s, i, v) /\ OnMainThread
    \/ \E s \in StmtIds, i \in BindPositions, v \in IntVals : BindDouble(s, i, v) /\ OnMainThread
    \/ \E s \in StmtIds, i \in BindPositions, t \in BindTexts : BindText(s, i, t) /\ OnMainThread
    \/ \E s \in StmtIds, i \in BindPositions, b \in BindTexts : BindBlob(s, i, b) /\ OnMainThread
    \/ \E s \in StmtIds : ClearBindings(s) /\ OnMainThread
    \/ \E s \in StmtIds : Execute(s) /\ OnMainThread
    \/ \E s \in StmtIds : Step(s) /\ OnMainThread
    \/ \E s \in StmtIds : DropRow(s) /\ OnMainThread
    \/ \E s \in StmtIds : DropResultSet(s) /\ OnMainThread
    \/ \E s \in StmtIds : DropStatement(s) /\ OnMainThread

SpecBind == Init /\ [][NextBind]_vars

\* one statement "select ?1 as a": a timestamp bound and read back
NextTime ==
    \/ conn[1].life = "none" /\ New /\ PrimaryCodes /\ OnMainThread
    \/ \E c \in ConnIds : DropConnection(c) /\ OnMainThread
    \/ \E c \in ConnIds, sql \in ValSql : ps[1].life = "none" /\ Prepare(c, sql) /\ OnMainThread
    \/ \E s \in StmtIds, i \in ValPositions : BindNull(s, i) /\ OnMainThread
    \/ \E s \in StmtIds, i \in ValPositions, t \in Timespecs : ToSqlTimespec(s, i, t) /\ OnMainThread
    \/ \E s \in StmtIds : Execute(s) /\ OnMainThread
    \/ \E s \in StmtIds : Step(s) /\ OnMainThread
    \/ \E s \in StmtIds : FromSqlTimespec(s) /\ OnMainThread
    \/ \E s \in StmtIds : DropRow(s) /\ OnMainThread
    \/ \E s \in StmtIds : DropResultSet(s) /\ OnMainThread
    \/ \E s \in StmtIds : DropStatement(s) /\ OnMainThread

SpecTime == Init /\ [][NextTime]_vars

\* threads, each making one connection and one statement and using what it
\* can reach; a ResultSet is stepped up to its first end
ThreadSql == {q \in SqlTexts : q.ok /\ q.n = 0}
Idle(t) == \A c \in ConnIds : threads.conn[c] # t
Plain(t) == \A s \in StmtIds : threads.stmt[s] # t
Running(s) == rs[s].end = "no"

NextThreads ==
    \/ \E t \in Threads : Idle(t) /\ New /\ PrimaryCodes /\ By(t)
    \/ \E t \in Threads, c \in ConnIds : ConnOnThread(t, c) /\ DropConnection(c) /\ By(t)
    \/ \E t \in Threads, c \in ConnIds, sql \in ThreadSql :
          Plain(t) /\ ConnOnThread(t, c) /\ Prepare(c, sql) /\ By(t)
    \/ \E t \in Threads, s \in StmtIds : StmtOnThread(t, s) /\ Execute(s) /\ By(t)
    \/ \E t \in Threads, s \in StmtIds : StmtOnThread(t, s) /\ Running(s) /\ Step(s) /\ By(t)
    \/ \E t \in Threads, s \in StmtIds : StmtOnThread(t, s) /\ DropResultSet(s) /\ By(t)
    \/ \E t \in Threads, s \in StmtIds : StmtOnThread(t, s) /\ DropStatement(s) /\ By(t)

SpecThreads == Init /\ [][NextThreads]_vars

\* one statement of zero to MaxRows rows and one parameter, or of one row
\* and two: queried and updated with no, one and two values
QuerySql == {q \in SqlTexts : q.ok} \cup {PairSql}

NextQuery ==
    \/ conn[1].life = "none" /\ New /\ PrimaryCodes /\ OnMainThread
    \/ \E c \in ConnIds : DropConnection(c) /\ OnMainThread
    \/ \E c \in ConnIds, sql \in QuerySql : ps[1].life = "none" /\ Prepare(c, sql) /\ OnMainThread
    \/ \E s \in StmtIds, values \in UpdateValues, each_row \in EachRows :
            Query(s, values, each_row) /\ OnMainThread
    \/ \E c \in ConnIds, s \in StmtIds, values \in UpdateValues : Update(c, s, values) /\ OnMainThread
    \/ \E s \in StmtIds : DropStatement(s) /\ OnMainThread

SpecQuery == Init /\ [][NextQuery]_vars

\* one statement whose column has a name of valid text, or of bytes that
\* are none: the name of every index asked for
NameSql == {BadColSql} \cup {q \in SqlTexts : q.n = 1}

NextNames ==
    \/ New /\ PrimaryCodes /\ OnMainThread
    \/ \E c \in ConnIds : DropConnection(c) /\ OnMainThread
    \/ \E c \in ConnIds, sql \in NameSql : ps[1].life = "none" /\ Prepare(c, sql) /\ OnMainThread
    \/ \E s \in StmtIds : Execute(s) /\ OnMainThread
    \/ \E s \in StmtIds : Step(s) /\ OnMainThread
    \/ \E s \in StmtIds, i \in ColIndexes : WithColumnName(s, i) /\ OnMainThread
    \/ \E s \in StmtIds : DropRow(s) /\ OnMainThread
    \/ \E s \in StmtIds : DropResultSet(s) /\ OnMainThread
    \/ \E s \in StmtIds : DropStatement(s) /\ OnMainThread

SpecNames == Init /\ [][NextNames]_vars

\* connections with their tables, and one statement at a time that inserts
\* or selects nothing: update called on any connection with the statement
CountSql == {InsertSql} \cup {q \in SqlTexts : q.ok /\ q.n = 0}

NextCount ==
    \/ New /\ PrimaryCodes /\ OnMainThread
    \/ \E c \in ConnIds : Exec(c, CreateSql, FALSE) /\ OnMainThread
    \/ \E c \in ConnIds, sql \in CountSql :
            (\A s \in StmtIds : ps[s].life # "alive") /\ Prepare(c, sql) /\ OnMainThread
    \/ \E c \in ConnIds, s \in StmtIds : Update(c, s, <<IntV(1)>>) /\ OnMainThread
    \/ \E s \in StmtIds : DropStatement(s) /\ OnMainThread

SpecCount == Init /\ [][NextCount]_vars

\* connections and their busy handlers, set from durations of every sign
\* and size
NextBusy ==
    \/ New /\ PrimaryCodes /\ OnMainThread
    \/ \E c \in ConnIds : DropConnection(c) /\ OnMainThread
    \/ \E c \in ConnIds, d \in Durations : BusyTimeout(c, d) /\ OnMainThread

SpecBusy == Init /\ [][NextBusy]_vars

\* connections and statements prepared from texts with and without a nul
\* byte
NextText ==
    \/ New /\ PrimaryCodes /\ OnMainThread
    \/ \E c \in ConnIds : DropConnection(c) /\ OnMainThread
    \/ \E c \in ConnIds, sql \in ConnSql : Prepare(c, sql) /\ OnMainThread
    \/ \E c \in ConnIds, sql \in ConnSql : PrepareNul(c, sql) /\ OnMainThread
    \/ \E s \in StmtIds : DropStatement(s) /\ OnMainThread

SpecText == Init /\ [][NextText]_vars

TypeOK ==
    /\ \A s \in StmtIds : rs[s].n \in 0..LiveCap /\ rs[s].rows \in 0..LiveCap
    /\ \A s \in StmtIds : vm[s].pc \in 0..MaxRows

\* ------------------------------------------------------------- properties
CountCalls(f, h) == Cardinality({i \in DOMAIN calls : calls[i] = Call(f, h)})

IsPrefix(g, rows) ==
    /\ Len(g) <= Len(rows)
    /\ \A i \in 1..Len(g) : g[i] = rows[i]

\* C1: when the destructor of a DatabaseConnection calls close, every
\* statement prepared from that connection has been finalized, close
\* returns OK and the assertion of the destructor holds.
C1_CloseAfterFinalize ==
    ret.op = "drop_conn" =>
        /\ ret.code = SQLITE_OK
        /\ ~ret.panic
        /\ \A s \in StmtIds : vm[s].db = conn[ret.id].db => vm[s].est = "finalized"

C1_Witness ==
    /\ ret.op = "drop_conn"
    /\ \A s \in StmtIds : vm[s].db = conn[ret.id].db /\ vm[s].est = "finalized"

\* C2: DatabaseConnection::new never leaks a handle.  After a failed open
\* the handle left in the slot (null or not) is closed exactly once and no
\* connection exists; after a successful one the handle is non-null, open,
\* owned by one connection and never closed while that connection lives,
\* and closed exactly once when the connection is dropped.
C2_NoHandleLeak ==
    /\ \A c \in ConnIds :
        /\ conn[c].life = "failed" /\ conn[c].db # NULL =>
              db[conn[c].db].st = "closed" /\ db[conn[c].db].closes = 1
        /\ conn[c].life = "alive" =>
              /\ conn[c].db # NULL
              /\ db[conn[c].db].st = "open"
              /\ db[conn[c].db].closes = 0
              /\ \A b \in ConnIds : b # c /\ conn[b].life = "alive" => conn[b].db # conn[c].db
        /\ conn[c].life = "dropped" =>
              db[conn[c].db].st = "closed" /\ db[conn[c].db].closes = 1
    /\ \A h \in ConnIds :
        db[h].st = "open" => \E c \in ConnIds : conn[c].life = "alive" /\ conn[c].db = h
    /\ ret.op = "new" /\ ret.code # SQLITE_OK =>
        /\ conn[ret.id].life = "failed"
        /\ CountCalls("sqlite3_close", conn[ret.id].db) = 1
    /\ ret.op = "new" /\ ret.code = SQLITE_OK =>
        /\ conn[ret.id].life = "alive"
        /\ CountCalls("sqlite3_close", conn[ret.id].db) = 0

C2_Witness ==
    \E c, b \in ConnIds :
        /\ conn[c].life = "failed" /\ conn[c].db # NULL
        /\ conn[b].life = "dropped"

\* C3: the handle of a PreparedStatement is finalized exactly once, by the
\* drop of the statement, whatever its passes consumed; no engine call is
\* made on it after that, and no ResultSet of it is left to be reset.
C3_FinalizeOnce ==
    /\ \A s \in StmtIds :
        /\ vm[s].fin = (IF ps[s].life = "dropped" THEN 1 ELSE 0)
        /\ ~vm[s].uaf
        /\ ps[s].life = "dropped" => vm[s].est = "finalized" /\ rs[s].n = 0 /\ rs[s].rows = 0
        /\ ps[s].life = "alive" => vm[s].est = "live"
    /\ ret.op = "drop_stmt" => calls = <<Call("sqlite3_finalize", ret.id)>>

C3_Witness ==
    /\ ret.op = "drop_stmt"
    /\ rs[ret.id].prev >= 1
    /\ vm[ret.id].fin = 1

\* C4: a ResultRow is read only while the row its step produced is the
\* current row of the engine: at most one ResultRow of a ResultSet lives,
\* and while it lives the ResultSet lives and has not been stepped again.
C4_RowValid ==
    /\ \A s \in StmtIds :
        /\ rs[s].rows <= 1
        /\ rs[s].rows = 1 =>
              /\ rs[s].n = 1
              /\ vm[s].est = "live"
              /\ vm[s].run = "row"
              /\ rs[s].cur = SqliteColumn(vm[s])
    /\ ret.op = "column" => ret.val # NoVal /\ ret.val = rs[ret.id].cur

C4_Witness ==
    /\ ret.op = "column"
    /\ vm[ret.id].pc = 2
    /\ ret.val = IntV(2)
BindOps == {"bind_null", "bind_int", "bind_text", "clear_bindings", "execute"}

\* C5: while a ResultSet of a statement lives, no bind_*, clear_bindings or
\* execute runs on that statement, its bindings stay as they are, and no
\* second ResultSet of it comes to life.
C5_NoReentry ==
    /\ [](\A s \in StmtIds : rs[s].n <= 1)
    /\ [][\A s \in StmtIds : rs[s].n >= 1 =>
            /\ ~(ret'.id = s /\ ret'.op \in BindOps)
            /\ vm'[s].bind = vm[s].bind
            /\ rs'[s].n <= 1]_vars

C5_Witness ==
    \E s \in StmtIds :
        /\ rs[s].n = 1
        /\ ret.op = "step" /\ ret.id = s
        /\ vm[s].bind[1] = TextV(<<LetterA>>)

\* C6: the drop of a ResultSet issues exactly one sqlite3_reset on its
\* statement and nothing else, from whatever state the pass is in, returns
\* no status, and leaves every binding of the statement as it was.
C6_DropResets ==
    [][ret'.op = "drop_rs" =>
         /\ calls' = <<Call("sqlite3_reset", ret'.id)>>
         /\ ret'.code = SQLITE_OK /\ ~ret'.panic
         /\ vm'[ret'.id].bind = vm[ret'.id].bind
         /\ vm'[ret'.id].run = "ready" /\ vm'[ret'.id].pc = 0]_vars

C6_Witness ==
    /\ ret.op = "drop_rs"
    /\ ret.kind = "error"
    /\ vm[ret.id].bind[1] = IntV(1)

\* C7: after a ResultSet was dropped with only k < n rows consumed, the next
\* pass over the same statement delivers the rows of the result from the
\* first on, and all n of them by the time step reports 'done'.
C7_RestartAfterPartial ==
    \A s \in StmtIds :
        rs[s].n = 1 /\ rs[s].prev # NoPartial /\ rs[s].end # "error" =>
            /\ IsPrefix(rs[s].got, RowsOf(vm[s].sql, vm[s].bind))
            /\ rs[s].end = "done" => rs[s].got = RowsOf(vm[s].sql, vm[s].bind)

C7_Witness ==
    \E s \in StmtIds :
        /\ rs[s].n = 1 /\ rs[s].prev = 1 /\ rs[s].end = "done"
        /\ rs[s].got = <<<<IntV(1)>>, <<IntV(2)>>>>

\* C8: in a pass without an engine error, the k-th step returns row k of
\* the n result rows for k <= n and the (n+1)-th returns 'no more rows';
\* for n = 0 the first step does.
C8_RowsInOrder ==
    ret.op = "step" /\ ~rs[ret.id].again /\ rs[ret.id].end # "error" =>
        LET s == ret.id
            rows == RowsOf(vm[s].sql, vm[s].bind)
            k == Len(rs[s].got)
        IN /\ ret.kind \in {"row", "done"}
           /\ ret.kind = "row" => k >= 1 /\ k <= Len(rows) /\ ret.val = rows[k][1]
           /\ ret.kind = "done" => k = Len(rows)
           /\ IsPrefix(rs[s].got, rows)

C8_Witness ==
    /\ ret.op = "step" /\ ret.kind = "done"
    /\ ~rs[ret.id].again
    /\ Len(rs[ret.id].got) = 2

\* C9: once step has returned 'no more rows' or an error, no later step on
\* that ResultSet returns a row.
C9_TerminalStates ==
    ret.op = "step" /\ rs[ret.id].again => ret.kind # "row"

\* C10: bind_text of a value with an interior nul byte returns the MISUSE
\* string-encoding error, makes no engine call and leaves the bindings as
\* they were.
C10_NulTextRejected ==
    [][ret'.op = "bind_text" /\ HasNul(ret'.val.v) =>
         /\ ret'.code = SQLITE_MISUSE
         /\ calls' = <<>>
         /\ vm' = vm]_vars

\* the operations C11 names, by the object that carries the detail switch
ConnFallible == {"prepare", "exec", "busy_timeout"}
StmtFallible == {"bind_null", "bind_int", "bind_text", "step"}

Failed(r) == r.kind \in {"err", "error"}

\* the detail C11 expects of the error an operation returned in a step:
\* a copy of the last-error message the connection holds as the operation
\* returns, or none when the copy is switched off
ExpectedDetail ==
    IF ret'.op \in ConnFallible
    THEN IF conn[ret'.id].detailed
         THEN Detail(SqliteErrmsg(db', conn[ret'.id].db)) ELSE NoDetail
    ELSE IF ps[ret'.id].detailed
         THEN Detail(SqliteErrmsg(db', vm[ret'.id].db)) ELSE NoDetail

\* C11 as claimed: every failing prepare, exec, busy_timeout, bind_* or
\* step returns an error whose detail is a copy of the engine's last-error
\* message when detail copying is enabled, and no detail when it is disabled.
C11_DetailOnEveryFailure ==
    [][ret'.op \in ConnFallible \cup StmtFallible /\ Failed(ret') =>
         ret'.detail = ExpectedDetail]_vars

\* C11 amended: the same for every error decoded from an engine status;
\* the one failure made without an engine call, exec of a text with an
\* interior nul byte, is MISUSE with no detail under either setting.
C11_DetailCopied ==
    [][ret'.op \in ConnFallible \cup StmtFallible /\ Failed(ret') =>
         IF calls' = <<>>
         THEN ret'.op = "exec" /\ ret'.code = SQLITE_MISUSE /\ ret'.detail = NoDetail
         ELSE ret'.detail = ExpectedDetail]_vars

C11_Witness ==
    /\ ret.op = "step" /\ ret.kind = "error"
    /\ ps[ret.id].detailed
    /\ ret.detail = Detail(SQLITE_BUSY)
    /\ db[vm[ret.id].db].errmsg = SQLITE_BUSY

\* C12: no fallible operation panics, whatever status the engine returns;
\* the only panic is the failed close of the connection destructor (and
\* get()).
C12_NoPanic ==
    ret.panic => ret.op \in {"drop_conn", "get"}

\* C13: on a fresh connection changes() is 0 after the DDL and before any
\* DML; a single-row INSERT stepped to completion adds one row, and after
\* it changes() is 1 and last_insert_rowid() is the rowid of the row added.
C13_ChangesAndRowid ==
    /\ [](/\ ret.op = "changes" =>
               ret.val = IntV(IF db[conn[ret.id].db].table = <<>> THEN 0 ELSE 1)
          /\ ret.op = "last_insert_rowid" /\ db[conn[ret.id].db].table # <<>> =>
               ret.val = IntV(db[conn[ret.id].db].table[Len(db[conn[ret.id].db].table)]))
    /\ [][ret'.op = "step" /\ ret'.kind = "done" /\ vm[ret'.id].sql.kind = "insert" =>
            LET h == vm[ret'.id].db
            IN /\ Len(db'[h].table) = Len(db[h].table) + 1
               /\ db'[h].changes = 1
               /\ db'[h].rowid = db'[h].table[Len(db'[h].table)]]_vars

C13_Witness ==
    /\ ret.op = "last_insert_rowid" /\ ret.val = IntV(2)
    /\ \E s \in StmtIds : vm[s].sql.kind = "insert" /\ vm[s].run = "done"

\* the getter of the kind of a caller's value
GetterOf(k) ==
    IF k = "int" THEN "column_int"
    ELSE IF k = "int64" THEN "column_int64"
    ELSE IF k = "double" THEN "column_double"
    ELSE IF k = "text" THEN "column_text"
    ELSE IF k = "blob" THEN "column_blob"
    ELSE "get_opt"

\* C14: a value v of any kind bound at position 1 of "select ?1" and read
\* from column 0 of the row with the getter of its kind comes back equal to
\* v (NULL as None of an Option getter), the empty text, the empty blob
\* and text with a nul byte included.
C14_RoundTrip ==
    \A s \in StmtIds :
        /\ ret.id = s /\ rs[s].rows >= 1 /\ vm[s].pc = 1
        /\ ret.op = GetterOf(ps[s].arg.k)
        /\ ret.op = "get_opt" => ret.ty.opt
        => ret.val = (IF ps[s].arg.k = "null" THEN NoVal ELSE ps[s].arg)

C16_ColumnNameOrDefault ==
    \A s \in StmtIds :
        ret.op = "with_column_name" /\ ret.id = s
        => LET i == ret.idx.v[1]
               cols == vm[s].sql.cols
           IN IF i < 0 \/ i >= Len(cols)
              THEN ret.val = NoVal /\ CountCalls("f", s) = 0
              ELSE ret.val = Applied(cols[i + 1]) /\ CountCalls("f", s) = 1

\* the first index that is no column, on a row of three columns
C16_Witness ==
    /\ ret.op = "with_column_name"
    /\ Len(vm[ret.id].sql.cols) = Len(WideSql.cols)
    /\ ret.idx = ColIxV(Len(WideSql.cols))
    /\ ret.val = NoVal

\* C17: get_opt with a column name returns the value of the lowest-numbered
\* column of that name; when no column of the row has the name it returns
\* an error of kind MISUSE whose detail is the requested name, without
\* calling FromSql and without panicking.
C17_GetByName ==
    \A s \in StmtIds :
        ret.op = "get_opt_name" /\ ret.id = s
        => LET name == ret.idx.v[1]
               cols == vm[s].sql.cols
               hits == {k \in 1..Len(cols) : cols[k] = name}
               low == CHOOSE k \in hits : \A j \in hits : k <= j
               v == RowsOf(vm[s].sql, vm[s].bind)[vm[s].pc][low]
           IN IF hits = {}
              THEN /\ ret.kind = "err" /\ ret.code = SQLITE_MISUSE /\ ~ret.panic
                   /\ ret.detail = Detail(name)
                   /\ \A i \in DOMAIN calls :
                        calls[i].f \in {"sqlite3_column_count", "sqlite3_column_name"}
              ELSE /\ ret.kind = "ok"
                   /\ ret.val = (IF ret.ty.opt /\ v = NullV THEN NoVal ELSE FromSql(ret.ty.T, v))

\* the name of two columns, the first of them holding the bound value
C17_Witness ==
    /\ ret.op = "get_opt_name" /\ ret.idx = NameV("a") /\ ret.ty = [T |-> "i32", opt |-> FALSE]
    /\ vm[ret.id].sql = WideSql
    /\ vm[ret.id].bind[1] = IntV(0)
    /\ ret.val = IntV(0)

\* the position of the first call of f in the calls of the last operation, 0 without one
FirstCall(f) ==
    IF \E i \in DOMAIN calls : calls[i].f = f
    THEN CHOOSE i \in DOMAIN calls : calls[i].f = f /\ \A j \in 1..(i - 1) : calls[j].f # f
    ELSE 0

\* C18: update returns Err(MISUSE) when its single step yields a row, the
\* error of the bind or of the step that failed, and Ok(changes) only when
\* the step reported done; whenever it returns, the statement is reset.
C18_UpdateOutcome ==
    ret.op = "update" =>
        LET s == ret.id
            stepped == CountCalls("sqlite3_step", s) = 1
        IN /\ vm[s].run = "ready" /\ vm[s].pc = 0
           /\ CountCalls("sqlite3_step", s) <= 1
           /\ stepped => CountCalls("sqlite3_reset", s) = 1
                          /\ FirstCall("sqlite3_step") < FirstCall("sqlite3_reset")
           /\ ~stepped => ret.kind = "err" /\ ret.code # SQLITE_OK /\ ret.code = ret.inner
           /\ stepped /\ ret.inner = SQLITE_ROW => ret.kind = "err" /\ ret.code = SQLITE_MISUSE
           /\ stepped /\ ret.inner = SQLITE_DONE =>
                  ret.kind = "ok" /\ ret.val = IntV(db[vm[s].db].changes)
           /\ stepped /\ ret.inner \notin {SQLITE_ROW, SQLITE_DONE} =>
                  ret.kind = "err" /\ ret.code = ret.inner
           /\ ret.kind = "ok" => stepped /\ ret.inner = SQLITE_DONE

C18_Witness ==
    /\ ret.op = "update"
    /\ ret.inner = SQLITE_ROW /\ ret.code = SQLITE_MISUSE
    /\ vm[ret.id].run = "ready"

\* the live statements prepared from connection c
LiveStatements(c) == {s \in StmtIds : ps[s].life = "alive" /\ vm[s].db = conn[c].db}

ExclusiveOps == {"exec", "busy_timeout", "errmsg", "ignore_detail"}

C20_ExclusiveAccess ==
    [][ret'.op \in ExclusiveOps =>
         \A s \in StmtIds : vm[s].db = conn[ret'.id].db =>
             ps[s].life # "alive" /\ rs[s].n = 0 /\ rs[s].rows = 0]_vars

C20_Witness ==
    /\ ret.op = "exec" /\ ret.code = SQLITE_OK
    /\ \E s \in StmtIds : ps[s].life = "dropped" /\ vm[s].db = conn[ret.id].db

BindValueOps == {"bind_null", "bind_int", "bind_int64", "bind_double", "bind_text", "bind_blob"}

\* C21: bind_null/int/int64/double/text/blob at position 0, or at a position
\* above bind_parameter_count(), returns an error and leaves every binding
\* of the statement as it was.
C21_BadPositionRejected ==
    [][\A s \in StmtIds :
          /\ ret'.op \in BindValueOps /\ ret'.id = s
          /\ (ret'.idx.v[1] = 0 \/ ret'.idx.v[1] > SqliteBindParameterCount(vm[s]))
          => Failed(ret') /\ vm'[s].bind = vm[s].bind]_vars

\* a blob refused at the position after the last, a value bound before it
C21_Witness ==
    /\ ret.op = "bind_blob" /\ ret.idx = ParamIxV(PairSql.np + 1)
    /\ ret.kind = "err" /\ ret.code = SQLITE_RANGE
    /\ vm[ret.id].bind[1] = IntV(1)

\* the values the engine may hold after a successful bind of arg
Stored(arg) ==
    IF arg.k = "int64" THEN {IntV(arg.v[1])}
    ELSE IF arg.k = "text" THEN {TextV(x) : x \in DanglingRead(arg.v, Len(arg.v))}
    ELSE {arg}

\* C22: a successful bind at position p replaces the value bound at p and
\* leaves the bindings of all other positions unchanged; a position not
\* bound since the statement was prepared or its bindings cleared holds
\* Null, and reads as Null in the row the statement is stepped to.
C22_BindFrame ==
    /\ [][\A s \in StmtIds :
            ret'.op \in BindValueOps /\ ret'.id = s /\ ret'.kind = "ok"
            => /\ vm'[s].bind[ret'.idx.v[1]] \in Stored(ret'.val)
               /\ \A q \in DOMAIN vm[s].bind \ {ret'.idx.v[1]} :
                    vm'[s].bind[q] = vm[s].bind[q]]_vars
    /\ [](\A s \in StmtIds : ps[s].life = "alive" =>
            \A q \in 1..SqliteBindParameterCount(vm[s]) \ ps[s].bound :
                /\ vm[s].bind[q] = NullV
                /\ rs[s].rows >= 1 => SqliteColumnAt(vm[s], q - 1) = NullV)

\* a row of a statement whose first parameter was bound and whose second
\* never was
C22_Witness ==
    /\ ret.op = "step" /\ ret.kind = "row"
    /\ ps[ret.id].bound = {1}
    /\ SqliteColumnAt(vm[ret.id], 0) = IntV(1)
    /\ SqliteColumnAt(vm[ret.id], 1) = NullV

\* C23: a timestamp t bound through ToSql for Timespec and decoded from the
\* resulting column through FromSql for Timespec comes back as t truncated
\* to whole seconds.
C23_TimeRoundTrip ==
    \A s \in StmtIds :
        /\ ret.op = "from_sql_timespec" /\ ret.id = s
        /\ rs[s].rows >= 1 /\ vm[s].pc = 1
        /\ ps[s].arg.k = "time"
        => ret.kind = "ok" /\ ret.val = TimeV(ps[s].arg.v[1], 0)

\* the operations on a connection and on a statement (a successful prepare
\* returns the statement, a failed one the error of the connection)
ConnOps == {"new", "drop_conn"}
StmtOps == {"execute", "step", "drop_rs", "drop_stmt"}

\* C24: a connection handle, and the statements derived from it, are used by
\* one thread only: every operation on a DatabaseConnection, on a
\* PreparedStatement of it or on a ResultSet or ResultRow of that runs on
\* the thread the connection was made on.
C24_OneThreadPerHandle ==
    /\ (ret.op \in ConnOps \/ (ret.op = "prepare" /\ ret.kind # "ok")
            => threads.cur = threads.conn[ret.id])
    /\ (ret.op \in StmtOps \/ (ret.op = "prepare" /\ ret.kind = "ok")
            => \E c \in ConnIds : /\ conn[c].life # "none" /\ conn[c].db = vm[ret.id].db
                                  /\ threads.cur = threads.conn[c])

\* two connections on two threads, a statement of the second stepped while
\* the first connection is alive
C24_Witness ==
    /\ ret.op = "step" /\ threads.cur # MainThread
    /\ \E c \in ConnIds : conn[c].life = "alive" /\ threads.conn[c] = MainThread

\* C25: when Access::open fails, DatabaseConnection::new copies the engine's
\* error message of the handle before it closes the handle, and the error
\* it returns carries that copy as detail.
C25_OpenErrorDetail ==
    ret.op = "new" /\ Failed(ret)
    => /\ ret.detail = Detail(ret.code)
       /\ FirstCall("sqlite3_open") < FirstCall("sqlite3_errmsg")
       /\ FirstCall("sqlite3_errmsg") < FirstCall("sqlite3_close")
       /\ CountCalls("sqlite3_errmsg", conn[ret.id].db) = 1
       /\ CountCalls("sqlite3_close", conn[ret.id].db) = 1

\* an open that failed and left a handle, which new closed
C25_Witness ==
    /\ ret.op = "new" /\ ret.code = SQLITE_CANTOPEN
    /\ ret.detail = Detail(SQLITE_CANTOPEN)
    /\ conn[ret.id].db # NULL /\ db[conn[ret.id].db].st = "closed"

\* C26: exec of a SQL text with an embedded nul byte returns an error of
\* kind MISUSE with the description "Sql string contained an internal 0
\* byte" and no detail, makes no engine call and leaves the database as it
\* was.
C26_ExecNulRejected ==
    [][ret'.op = "exec" /\ ret'.idx.v[2]
        => /\ ret'.kind = "err" /\ ret'.code = SQLITE_MISUSE
           /\ ret'.desc = "Sql string contained an internal 0 byte"
           /\ ret'.detail = NoDetail
           /\ calls' = <<>>
           /\ db' = db]_vars

\* the text would have compiled, on a connection that copies details
C26_Witness ==
    /\ ret.op = "exec" /\ ret.idx.v[2] /\ ret.idx.v[1].ok
    /\ ret.code = SQLITE_MISUSE
    /\ conn[ret.id].detailed

\* C27: prepare of a SQL text with an embedded nul byte fails with the
\* MISUSE string-encoding error; it never compiles another text in place
\* of the caller's.
C27_PrepareNulRejected ==
    ret.op = "prepare" /\ ret.idx.k = "sql" /\ ret.idx.v[2]
    => /\ ret.kind = "err" /\ ret.code = SQLITE_MISUSE
       /\ ret.desc = FromNulError.desc

\* C28: get_opt with a numeric index that is no column of the row
\* (index >= column_count()) returns the MISUSE error of a missing column,
\* not a default value.
C28_NoSuchColumn ==
    ret.op = "get_opt_ix" /\ ret.idx.v[1] >= column_count(vm[ret.id])
    => ret.kind = "err" /\ ret.code = SQLITE_MISUSE

\* the places of the calls of f in a sequence of calls
CallsOf(cs, f) == {i \in DOMAIN cs : cs[i].f = f}

\* C29: query binds the values, then calls each_row once per result row in
\* result order; it returns the first error of a step or of each_row
\* without stepping again, Ok when the rows are exhausted, and leaves the
\* statement reset on every way out.
C29_QueryLoop ==
    ret.op = "query" =>
        LET s == ret.id
            each_row == ret.idx.v[2]
            seen == ret.val.v
            rows == RowsOf(vm[s].sql, vm[s].bind)
            steps == Cardinality(CallsOf(calls, "sqlite3_step"))
        IN /\ vm[s].run = "ready" /\ vm[s].pc = 0
           /\ steps > 0 =>
                /\ calls[Len(calls)].f = "sqlite3_reset"
                /\ Cardinality(CallsOf(calls, "each_row")) = Len(seen)
                /\ \A i \in CallsOf(calls, "each_row") : calls[i - 1].f = "sqlite3_step"
                /\ Len(seen) <= Len(rows)
                /\ \A i \in 1..Len(seen) : seen[i] = rows[i][1]
                /\ ret.kind = "ok" =>
                        /\ Len(seen) = Len(rows) /\ steps = Len(rows) + 1
                        /\ \A j \in 1..Len(seen) : each_row[j]
                /\ ret.kind # "ok" =>
                        \/ /\ ret.desc = EachRowError.desc
                           /\ ~each_row[Len(seen)] /\ \A j \in 1..(Len(seen) - 1) : each_row[j]
                           /\ steps = Len(seen)
                        \/ /\ ret.desc = "step"
                           /\ \A j \in 1..Len(seen) : each_row[j]
                           /\ steps = Len(seen) + 1

\* each_row took the first row and returned its error on the second
C29_Witness ==
    /\ ret.op = "query" /\ ret.kind = "err" /\ ret.desc = EachRowError.desc
    /\ Len(ret.val.v) = 2 /\ ret.val.v[1] = IntV(1)
    /\ calls[Len(calls)].f = "sqlite3_reset"

BindCalls == {"sqlite3_bind_null", "sqlite3_bind_int", "sqlite3_bind_text"}

\* C30: update and query bind values[i] at position i + 1 in increasing i;
\* when the bind of values[k] fails its error is returned, no later value
\* is bound, the values bound at positions 1..k stay, and no step is
\* executed.
C30_BindValues ==
    [][ret'.op \in {"update", "query"} =>
        LET s == ret'.id
            values == ret'.idx.v[1]
            bound == SelectSeq(calls', LAMBDA c : c.f \in BindCalls)
            nb == Len(bound)
            failed == ret'.kind = "err" /\ ret'.desc \in BindCalls
            kept == IF failed THEN nb - 1 ELSE nb
        IN /\ nb <= Len(values)
           /\ \A i \in 1..nb : bound[i].f = ToSqlBind(values[i])
           /\ \A i \in 1..kept : vm'[s].bind[i] = values[i]
           /\ \A q \in DOMAIN vm[s].bind : q > kept => vm'[s].bind[q] = vm[s].bind[q]
           /\ failed <=> Len(values) > SqliteBindParameterCount(vm[s])
           /\ failed =>
                /\ nb = SqliteBindParameterCount(vm[s]) + 1
                /\ ret'.desc = ToSqlBind(values[nb])
                /\ CallsOf(calls', "sqlite3_step") = {}
                /\ CallsOf(calls', "sqlite3_reset") = {}
           /\ ~failed => nb = Len(values)]_vars

\* the second of two values refused by a statement of one parameter, the
\* first bound
C30_Witness ==
    /\ ret.op = "query" /\ ret.kind = "err" /\ ret.desc = "sqlite3_bind_int"
    /\ ret.idx.v[1] = <<NullV, IntV(1)>>
    /\ vm[ret.id].bind[1] = NullV /\ ps[ret.id].bound = {1}
    /\ calls[1] = Call("sqlite3_bind_null", ret.id)
    /\ CallsOf(calls, "sqlite3_bind_int") # {} /\ CallsOf(calls, "sqlite3_step") = {}

\* C31: busy_timeout(d) removes the busy handler if and only if d is zero
\* or negative; for every strictly positive d, durations of 2^31
\* milliseconds and more included, the milliseconds handed to the engine
\* are strictly positive.
C31_BusyPositive ==
    ret.op = "busy_timeout" =>
        /\ IsPositive(ret.idx) => ret.val.v[1] > 0
        /\ db[conn[ret.id].db].busy = 0 <=> ~IsPositive(ret.idx)

\* C32: column_blob returns None if and only if the column is SQL NULL; of
\* a blob, the one of no bytes included, it returns a copy of exactly its
\* bytes.
C32_BlobOrNone ==
    ret.op = "column_blob" =>
        LET v == SqliteColumn(vm[ret.id])
        IN /\ ret.val = NoVal <=> v.k = "null"
           /\ v.k = "blob" => ret.val = v

\* the description each fallible operation gives the status it decodes
DescOf(op) ==
    IF op = "step" THEN "step"
    ELSE IF op = "prepare" THEN "sqlite3_prepare_v2"
    ELSE "sqlite3_" \o op

\* C33: a status decoded by decode_result is Ok exactly when it is 0, and
\* otherwise an error whose kind is the code equal to the status and whose
\* description names the call; step maps 100 to a row, 101 to the end of
\* the rows and every other status to an error of the kind equal to it.
C33_StatusDecoded ==
    ret.op \in ConnFallible \cup StmtFallible /\ calls # <<>> =>
        IF ret.op = "step"
        THEN /\ ret.inner = SQLITE_ROW => ret.kind = "row"
             /\ ret.inner = SQLITE_DONE => ret.kind = "done"
             /\ ret.inner \notin {SQLITE_ROW, SQLITE_DONE} =>
                    /\ ret.kind = "error" /\ ~ret.panic
                    /\ ret.code = ret.inner /\ ret.desc = DescOf(ret.op)
        ELSE /\ ret.kind = "ok" <=> ret.inner = SQLITE_OK
             /\ ret.inner # SQLITE_OK =>
                    /\ ret.kind = "err" /\ ~ret.panic
                    /\ ret.code = ret.inner /\ IsErrorCode(ret.code)
                    /\ ret.desc = DescOf(ret.op)

\* C34: a column name that the engine gives as the null pointer or as
\* bytes that are not valid text never reaches the caller:
\* with_column_name returns default without calling f.
C34_InvalidNameWithheld ==
    ret.op = "with_column_name" =>
        LET name == SqliteColumnName(vm[ret.id], ret.idx.v[1])
        IN ~name.some \/ ~ValidText(name.name)
           => ret.val = NoVal /\ CallsOf(calls, "f") = {}

\* C35: when a ResultSet first reaches the end of its rows, step reads the
\* affected-row count from the connection at that moment and returns it
\* with the 'done' outcome.
C35_DoneCarriesChanges ==
    \A s \in StmtIds :
        ret.op = "step" /\ ret.id = s /\ ret.kind = "done" /\ ~rs[s].again
        => /\ CallsOf(calls, "sqlite3_changes") # {}
           /\ ret.val = IntV(db[vm[s].db].changes)

\* C36: the count update(stmt, values) returns is the number of rows this
\* execution of stmt changed, read from the connection that prepared stmt
\* after the step reported done.
C36_UpdateCount ==
    [][ret'.op = "update" /\ ret'.kind = "ok" =>
        LET s == ret'.id
            h == vm[s].db
        IN /\ \A i \in CallsOf(calls', "sqlite3_changes") : calls'[i].h = h
           /\ ret'.val = IntV(Len(db'[h].table) - Len(db[h].table))]_vars

\* C37: the C string buffer whose pointer bind_text hands to the engine is
\* still allocated when the engine reads it, so that the bytes the engine
\* copies are those of the caller's text.
C37_BufferAlive ==
    ret.op = "bind_text" /\ ret.kind = "ok" /\ ~HasNul(ret.val.v)
    => vm[ret.id].bind[ret.idx.v[1]] = TextV(str_charstar(ret.val.v))
====
